---- MODULE Spec2Model ----
(***************************************************************************)
(* KiloCheck: the retry / circuit-breaker layer (lib/retryUtils) and the   *)
(* extraction hook (components/DataExtractor) that calls it.               *)
(*                                                                         *)
(* JavaScript runs one synchronous segment at a time, so every action      *)
(* below is one such segment: the code from a call, or from the resumption *)
(* of an await, up to the next await, return or throw.                     *)
(***************************************************************************)
EXTENDS Integers, Sequences, FiniteSets, TLC

(* ------------------------------ bounds -------------------------------- *)
\* concurrent callers
NProc == 2
\* execute() calls made over one behaviour
MaxCalls == 4
\* last value of the clock
MaxNow == 3
\* failureThreshold values a breaker is constructed with: 1..MaxThreshold
MaxThreshold == 2
\* recoveryTimeout values a breaker is constructed with: 1..MaxTimeout
MaxTimeout == 1
\* maxRetries values retryWithBackoff is called with: 0..MaxRetries
MaxRetries == 3
\* extractData calls one caller makes over one behaviour
MaxExtractions == 2
\* resilientApiCall calls made over one behaviour
MaxApiCalls == 7
\* attempts of a retryWithBackoff call whose waits are computed
MaxAttempts == 4

(* ------------------------- program constants -------------------------- *)
\* apiCircuitBreaker = new CircuitBreaker(5, 60000)
ApiFailureThreshold == 5
ApiRecoveryTimeout == 60000

Procs == 1..NProc

(* ------------------------------ values -------------------------------- *)
\* Every value an operation can resolve with or throw is a record of one
\* shape; tag tells apart two objects of the same kind and code.
ErrorCode ==
    {"INVALID_IMAGE_FORMAT", "IMAGE_TOO_LARGE", "NO_PRICE_DETECTED",
     "NO_WEIGHT_DETECTED", "NO_PRODUCT_DETECTED", "API_RATE_LIMIT",
     "API_ERROR", "NETWORK_ERROR"}

\* an object with a code field (an AppError)
AppError(code, tag) == [kind |-> "AppError", code |-> code, tag |-> tag]
\* an Error object, which has no code field
PlainError(tag) == [kind |-> "Error", code |-> "undefined", tag |-> tag]
\* null or undefined, thrown or rejected with
Nullish == [kind |-> "nullish", code |-> "undefined", tag |-> 0]
\* new Error('Circuit breaker is OPEN')
CircuitOpenError == [kind |-> "CircuitOpenError", code |-> "undefined", tag |-> 0]
\* a value an operation resolves with
Value(v) == [kind |-> "value", code |-> v, tag |-> 0]
\* nothing yet
None == [kind |-> "none", code |-> "undefined", tag |-> 0]

IsValue(x) == x.kind = "value"

(* ---------------------------- errorHandling ---------------------------- *)
\* an optional argument or field: Absent for undefined, Some(v) for v
Absent == <<>>
Some(v) == <<v>>

\* API_RETRY_STRATEGY
API_RETRY_STRATEGY ==
    [maxRetries |-> 3,
     retryableErrors |-> {"NETWORK_ERROR", "API_RATE_LIMIT", "API_ERROR"}]

ERROR_CATEGORIES ==
    [INVALID_IMAGE_FORMAT |-> "user_error",
     IMAGE_TOO_LARGE |-> "user_error",
     NO_PRICE_DETECTED |-> "user_error",
     NO_WEIGHT_DETECTED |-> "user_error",
     NO_PRODUCT_DETECTED |-> "user_error",
     API_RATE_LIMIT |-> "system_error",
     NETWORK_ERROR |-> "system_error",
     API_ERROR |-> "critical_error"]

\* ERROR_MESSAGES: the message and the suggestions of each code (the texts
\* are cut short)
ERROR_MESSAGES ==
    [INVALID_IMAGE_FORMAT |->
        [message |-> "El formato de imagen no es compatible.",
         suggestions |-> <<"Convierte la imagen", "Toma una nueva foto", "Verifica que el archivo">>],
     IMAGE_TOO_LARGE |->
        [message |-> "La imagen es demasiado grande.",
         suggestions |-> <<"Reduce la resolucion", "Comprime la imagen", "Toma una nueva foto">>],
     NO_PRICE_DETECTED |->
        [message |-> "No pudimos encontrar el precio en la imagen.",
         suggestions |-> <<"Toma la foto mas cerca", "Asegurate de que haya buena iluminacion",
                           "Verifica que el precio", "Evita reflejos">>],
     NO_WEIGHT_DETECTED |->
        [message |-> "No pudimos identificar el peso o volumen.",
         suggestions |-> <<"Asegurate de que el peso", "Toma la foto mas cerca",
                           "Verifica que la etiqueta", "Busca informacion">>],
     NO_PRODUCT_DETECTED |->
        [message |-> "No pudimos identificar el nombre del producto.",
         suggestions |-> <<"Toma la foto incluyendo", "Asegurate de que el texto",
                           "Verifica que la etiqueta", "Evita cortar el nombre">>],
     API_RATE_LIMIT |->
        [message |-> "Has realizado demasiadas solicitudes.",
         suggestions |-> <<"Espera 30 segundos", "Evita subir multiples imagenes", "Intenta de nuevo">>],
     NETWORK_ERROR |->
        [message |-> "Parece que hay un problema de conexion.",
         suggestions |-> <<"Verifica tu conexion", "Intenta de nuevo", "Cambia a una red",
                           "Recarga la pagina">>],
     API_ERROR |->
        [message |-> "Ha ocurrido un error en nuestros servidores.",
         suggestions |-> <<"Intenta de nuevo", "Si el problema persiste", "Verifica que la imagen">>]]

\* a createAppError that shows the caller's message to the user
createAppErrorShowsMessage(code, originalMessage, customSuggestions) ==
    [kind |-> "AppError", code |-> code, tag |-> 0,
     message |-> IF originalMessage \in {Absent, Some("")}
                 THEN ERROR_MESSAGES[code].message ELSE originalMessage[1],
     userMessage |-> IF originalMessage \in {Absent, Some("")}
                     THEN ERROR_MESSAGES[code].message ELSE originalMessage[1],
     suggestions |-> IF customSuggestions = Absent
                     THEN ERROR_MESSAGES[code].suggestions ELSE customSuggestions[1],
     recoverable |-> ERROR_CATEGORIES[code] # "critical_error"]

\* createAppError(code, originalMessage?, customSuggestions?); an empty
\* message is falsy and gives way to the static one, an empty list of
\* suggestions is not
createAppError(code, originalMessage, customSuggestions) ==
    [kind |-> "AppError", code |-> code, tag |-> 0,
     message |-> IF originalMessage \in {Absent, Some("")}
                 THEN ERROR_MESSAGES[code].message ELSE originalMessage[1],
     userMessage |-> ERROR_MESSAGES[code].message,
     suggestions |-> IF customSuggestions = Absent
                     THEN ERROR_MESSAGES[code].suggestions ELSE customSuggestions[1],
     recoverable |-> ERROR_CATEGORIES[code] # "critical_error"]

\* an isRetryableError that follows the category of the code
isRetryableErrorByCategory(error, strategy) ==
    ERROR_CATEGORIES[error.code] = "system_error"

\* isRetryableError(error, strategy)
isRetryableError(error, strategy) == error.code \in strategy.retryableErrors

\* isRecoverableError(error)
isRecoverableError(error) == error.recoverable

(* --------------------------- CircuitBreaker ---------------------------- *)
\* constructor: failures = 0, lastFailureTime = 0, state = 'CLOSED'
CircuitBreaker(failureThreshold, recoveryTimeout) ==
    [failures |-> 0, lastFailureTime |-> 0, state |-> "CLOSED",
     failureThreshold |-> failureThreshold, recoveryTimeout |-> recoveryTimeout]

\* a test that lets every call go on to its operation
executeAdmitsAlways(cb, t) == TRUE

\* execute(), the test at its head: does the call go on to its operation?
executeAdmits(cb, t) ==
    ~(cb.state = "OPEN" /\ ~(t - cb.lastFailureTime > cb.recoveryTimeout))

\* a gate that forgets the probe state
executeGateKeepsOpen(cb, t) == cb

\* execute(), the breaker after the test at its head
executeGate(cb, t) ==
    IF cb.state = "OPEN" /\ t - cb.lastFailureTime > cb.recoveryTimeout
    THEN [cb EXCEPT !.state = "HALF_OPEN"]
    ELSE cb

\* a success handler that closes without clearing the count
onSuccessKeepsCount(cb) == [cb EXCEPT !.state = "CLOSED"]

onSuccess(cb) == [cb EXCEPT !.failures = 0, !.state = "CLOSED"]

\* a failure handler that counts and never opens the breaker
onFailureNeverOpens(cb, t) ==
    [cb EXCEPT !.failures = cb.failures + 1, !.lastFailureTime = t]

\* a failure handler that stops counting at the threshold
onFailureSaturates(cb, t) ==
    [cb EXCEPT !.failures = IF cb.failures < cb.failureThreshold
                            THEN cb.failures + 1 ELSE cb.failures,
               !.lastFailureTime = t,
               !.state = IF cb.failures + 1 >= cb.failureThreshold
                         THEN "OPEN" ELSE cb.state]

\* a failure handler that opens one failure late
onFailureOpensLate(cb, t) ==
    [cb EXCEPT !.failures = cb.failures + 1,
               !.lastFailureTime = t,
               !.state = IF cb.failures + 1 > cb.failureThreshold
                         THEN "OPEN" ELSE cb.state]

onFailure(cb, t) ==
    [cb EXCEPT !.failures = cb.failures + 1,
               !.lastFailureTime = t,
               !.state = IF cb.failures + 1 >= cb.failureThreshold
                         THEN "OPEN" ELSE cb.state]

\* a catch block that reports an opening breaker instead of the error
executeSettlesMasksError(cb, t, outcome) ==
    IF IsValue(outcome)
    THEN [cb |-> onSuccess(cb), out |-> outcome]
    ELSE [cb |-> onFailure(cb, t),
          out |-> IF onFailure(cb, t).state = "OPEN" /\ cb.state # "OPEN"
                  THEN CircuitOpenError ELSE outcome]

\* execute(), from the settling of its operation: the breaker afterwards and
\* what execute returns or throws
executeSettles(cb, t, outcome) ==
    IF IsValue(outcome)
    THEN [cb |-> onSuccess(cb), out |-> outcome]
    ELSE [cb |-> onFailure(cb, t), out |-> outcome]

(* --------------------------- retryWithBackoff -------------------------- *)
\* API_RETRY_STRATEGY.retryableErrors, the default of opts.retryableErrors
ApiRetryableErrors == {"NETWORK_ERROR", "API_RATE_LIMIT", "API_ERROR"}

\* DEFAULT_RETRY_OPTIONS (its delays are DEFAULT_RETRY_DELAYS)
DEFAULT_RETRY_OPTIONS ==
    [maxRetries |-> API_RETRY_STRATEGY.maxRetries,
     retryableErrors |-> API_RETRY_STRATEGY.retryableErrors,
     onRetry |-> FALSE]

\* reading a property of null or undefined throws this
TypeErrorValue == [kind |-> "TypeError", code |-> "undefined", tag |-> 0]

\* one entry of the record kept of a retryWithBackoff call:
\*   invoke n      the operation is invoked for attempt n
\*   resolve n v   attempt n resolved with v
\*   fail n e      attempt n threw e
\*   onRetry n e   the observer was called with (n, e)
\*   sleep n       the backoff wait after attempt n was started
Event(ev, attempt, val) == [ev |-> ev, attempt |-> attempt, val |-> val]

shouldRetryError(error, retryableErrors) == error.code \in retryableErrors

\* the loop's bound: opts.maxRetries || 3
loopBound(opts) == IF opts.maxRetries = 0 THEN 3 ELSE opts.maxRetries

\* a catch block that gives up one attempt early
retryCatchStopsEarly(opts, attempt, error) ==
    IF error.kind = "nullish" THEN [act |-> "throw", val |-> TypeErrorValue]
    ELSE IF ~shouldRetryError(error, opts.retryableErrors) THEN [act |-> "throw", val |-> error]
    ELSE IF attempt >= opts.maxRetries - 1 THEN [act |-> "throw", val |-> error]
    ELSE [act |-> "retry", val |-> error]

\* a catch block without the last-attempt test
retryCatchNoLastAttemptTest(opts, attempt, error) ==
    IF error.kind = "nullish" THEN [act |-> "throw", val |-> TypeErrorValue]
    ELSE IF ~shouldRetryError(error, opts.retryableErrors) THEN [act |-> "throw", val |-> error]
    ELSE [act |-> "retry", val |-> error]

\* the catch block of the loop, up to its decision: throw (and what), or go
\* on to the observer and the wait.  `error as AppError` converts nothing, so
\* reading the code of null or undefined throws a TypeError from the catch
\* block itself.
retryCatch(opts, attempt, error) ==
    IF error.kind = "nullish" THEN [act |-> "throw", val |-> TypeErrorValue]
    ELSE IF ~shouldRetryError(error, opts.retryableErrors) THEN [act |-> "throw", val |-> error]
    ELSE IF attempt = opts.maxRetries THEN [act |-> "throw", val |-> error]
    ELSE [act |-> "retry", val |-> error]

\* an observer call that counts attempts from 0
notifyObserverFromZero(opts, log, attempt, error) ==
    IF opts.onRetry THEN Append(log, Event("onRetry", attempt - 1, error)) ELSE log

\* if (opts.onRetry) opts.onRetry(attempt, appError)
notifyObserver(opts, log, attempt, error) ==
    IF opts.onRetry THEN Append(log, Event("onRetry", attempt, error)) ELSE log

\* the state of a call that has not been made
IdleRetry ==
    [pc |-> "idle",
     opts |-> [maxRetries |-> 0, retryableErrors |-> {}, onRetry |-> FALSE],
     attempt |-> 0, lastError |-> None, out |-> None, log |-> <<>>]

\* retryWithBackoff(operation, options) up to the first `await operation()`
retryBegin(opts) ==
    [pc |-> "calling", opts |-> opts, attempt |-> 1, lastError |-> None,
     out |-> None, log |-> <<Event("invoke", 1, None)>>]

\* the loop body from the settling of `await operation()` with outcome: the
\* return, or the catch block up to its throw or to `await sleep(...)`
retryAttemptSettles(r, outcome) ==
    IF IsValue(outcome)
    THEN [r EXCEPT !.pc = "returned", !.out = outcome,
                   !.log = Append(r.log, Event("resolve", r.attempt, outcome))]
    ELSE LET d == retryCatch(r.opts, r.attempt, outcome)
             failed == Append(r.log, Event("fail", r.attempt, outcome))
         IN  IF d.act = "throw"
             THEN [r EXCEPT !.pc = "thrown", !.out = d.val, !.lastError = outcome,
                            !.log = failed]
             ELSE [r EXCEPT !.pc = "sleeping", !.lastError = outcome,
                            !.log = Append(notifyObserver(r.opts, failed, r.attempt, outcome),
                                           Event("sleep", r.attempt, None))]

\* the wait is over: attempt++, the loop test, and the next
\* `await operation()` or the throw after the loop
retrySleepEnds(r) ==
    IF r.attempt + 1 <= loopBound(r.opts)
    THEN [r EXCEPT !.pc = "calling", !.attempt = r.attempt + 1,
                   !.log = Append(r.log, Event("invoke", r.attempt + 1, None))]
    ELSE [r EXCEPT !.pc = "thrown", !.attempt = r.attempt + 1, !.out = r.lastError]

(* ------------------------------- numbers ------------------------------- *)
\* A number of the program is an IEEE 754 double.  A natural number of any
\* size is the sequence of its digits in base Base, the least significant
\* first and the last one not 0 (0 is the empty sequence); the arithmetic of
\* doubles is computed on such numbers, exactly, and rounded as the double
\* operations round.
Base == 32768

\* the one element of a set of one element.  Where an operator uses an
\* argument more than once, its body is the element of a set that binds the
\* value of the argument: the value is computed once.
The(S) == CHOOSE r \in S : TRUE

Max(m, n) == IF m > n THEN m ELSE n
Min(m, n) == IF m < n THEN m ELSE n

\* digit i of a
digit(a, i) == IF 1 <= i /\ i <= Len(a) THEN a[i] ELSE 0

\* a without the zeros after its last digit
trim(a0) ==
    The({SubSeq(a, 1, CHOOSE i \in 0..Len(a) :
                        /\ i = 0 \/ a[i] # 0
                        /\ \A j \in (i + 1)..Len(a) : a[j] = 0) : a \in {a0}})

RECURSIVE nat(_)
nat(n) == IF n = 0 THEN <<>> ELSE <<n % Base>> \o nat(n \div Base)

\* the carry into digit i of a + b: a digit below it overflows and the digits
\* between them pass the carry on
carry(a, b, i) ==
    \E j \in 1..(i - 1) :
        /\ digit(a, j) + digit(b, j) >= Base
        /\ \A k \in (j + 1)..(i - 1) : digit(a, k) + digit(b, k) = Base - 1

\* a + b
add(a0, b0) ==
    The({trim([i \in 1..(Max(Len(a), Len(b)) + 1) |->
                (digit(a, i) + digit(b, i) + (IF carry(a, b, i) THEN 1 ELSE 0)) % Base])
         : a \in {a0}, b \in {b0}})

\* the borrow from digit i of a - b
borrow(a, b, i) ==
    \E j \in 1..(i - 1) :
        /\ digit(a, j) < digit(b, j)
        /\ \A k \in (j + 1)..(i - 1) : digit(a, k) = digit(b, k)

\* a - b for a >= b
sub(a0, b0) ==
    The({IF a = <<>> THEN a
         ELSE trim([i \in 1..Len(a) |->
                (a[i] - digit(b, i) - (IF borrow(a, b, i) THEN 1 ELSE 0) + Base) % Base])
         : a \in {a0}, b \in {b0}})

\* a < b
less(a0, b0) ==
    The({\E i \in 1..Max(Len(a), Len(b)) :
            /\ digit(a, i) < digit(b, i)
            /\ \A j \in (i + 1)..Max(Len(a), Len(b)) : digit(a, j) = digit(b, j)
         : a \in {a0}, b \in {b0}})

\* a * k for 0 <= k < Base: the low halves of the products of the digits
\* plus their high halves, one digit up
times(a0, k0) ==
    The({IF a = <<>> \/ k = 0 THEN <<>>
         ELSE add([i \in 1..Len(a) |-> (a[i] * k) % Base],
                  <<0>> \o [i \in 1..Len(a) |-> (a[i] * k) \div Base])
         : a \in {a0}, k \in {k0}})

\* a * Base^n
timesBase(a0, n0) ==
    The({IF a = <<>> \/ n = 0 THEN a ELSE [i \in 1..n |-> 0] \o a : a \in {a0}, n \in {n0}})

\* a times the digits i..j of b
RECURSIVE mulRange(_, _, _, _)
mulRange(a, b, i, j) ==
    IF i = j THEN times(a, b[i])
    ELSE add(mulRange(a, b, i, (i + j) \div 2),
             timesBase(mulRange(a, b, (i + j) \div 2 + 1, j), (i + j) \div 2 + 1 - i))

\* a * b
mul(a0, b0) ==
    The({IF a = <<>> \/ b = <<>> THEN <<>> ELSE mulRange(a, b, 1, Len(b))
         : a \in {a0}, b \in {b0}})

RECURSIVE pow2(_)
pow2(n) == IF n = 0 THEN 1 ELSE 2 * pow2(n - 1)

\* a * 2^n
shl(a0, n0) ==
    The({timesBase(times(a, pow2(n % 15)), n \div 15) : a \in {a0}, n \in {n0}})

\* a / 2^n for n < 15, without its fraction
shrBits(a0, n0) ==
    The({IF a = <<>> THEN a
         ELSE trim([i \in 1..Len(a) |->
                (a[i] \div pow2(n)) + (digit(a, i + 1) % pow2(n)) * pow2(15 - n)])
         : a \in {a0}, n \in {n0}})

\* a / 2^n, without its fraction
shr(a0, n0) ==
    The({IF n \div 15 >= Len(a) THEN <<>>
         ELSE shrBits(SubSeq(a, n \div 15 + 1, Len(a)), n % 15)
         : a \in {a0}, n \in {n0}})

RECURSIVE bits(_)
bits(n) == IF n = 0 THEN 0 ELSE 1 + bits(n \div 2)

\* the number of binary digits of a
bitlen(a0) ==
    The({IF a = <<>> THEN 0 ELSE 15 * (Len(a) - 1) + bits(a[Len(a)]) : a \in {a0}})

\* the digit that r / b is at most, for r < b * Base
estimate(r, b) ==
    Min(Base - 1, (digit(r, Len(b) + 1) * Base + digit(r, Len(b))) \div b[Len(b)])

\* quotient, a digit, and remainder of r by b, for r < b * Base and the last
\* digit of b at least Base / 2: the quotient is at most 2 below the estimate
divmodDigit(r0, b0) ==
    The({The({[q |-> q, r |-> sub(r, times(b, q))]
              : q \in {q \in (estimate(r, b) - 2)..estimate(r, b) :
                            /\ q >= 0
                            /\ ~less(r, times(b, q))
                            /\ less(r, add(times(b, q), b))}})
         : r \in {r0}, b \in {b0}})

\* the long division of the digits i..j of a by b, the digits above them
\* having left the remainder r < b: the digits of the quotient and the
\* remainder (the upper digits are divided first)
RECURSIVE divmodRange(_, _, _, _, _)
divmodRange(a, b, i, j, r) ==
    IF i = j
    THEN The({[q |-> <<d.q>>, r |-> d.r] : d \in {divmodDigit(trim(<<a[i]>> \o r), b)}})
    ELSE The({The({[q |-> lo.q \o hi.q, r |-> lo.r]
                   : lo \in {divmodRange(a, b, i, (i + j) \div 2, hi.r)}})
              : hi \in {divmodRange(a, b, (i + j) \div 2 + 1, j, r)}})

\* quotient and remainder of a by b, of which a * 2^n and b * 2^n are divided:
\* the last digit of b * 2^n is at least Base / 2
divmodTimes(a0, b0, n) ==
    The({The({[q |-> trim(d.q), r |-> shr(d.r, n)]
              : d \in {divmodRange(a, b, 1, Len(a), <<>>)}})
         : a \in {shl(a0, n)}, b \in {shl(b0, n)}})

\* quotient and remainder of a by b > 0
divmod(a0, b0) ==
    The({IF less(a, b) THEN [q |-> <<>>, r |-> a]
         ELSE divmodTimes(a, b, 15 - bits(b[Len(b)]))
         : a \in {a0}, b \in {b0}})

\* p * 2^k / q rounded to the nearest integer, a tie to the even one
nearestEven(p, q, k) ==
    The({The({IF less(times(h.r, 2), d) THEN h.q
              ELSE IF less(d, times(h.r, 2)) THEN add(h.q, <<1>>)
              ELSE IF digit(h.q, 1) % 2 = 1 THEN add(h.q, <<1>>) ELSE h.q
              : h \in {divmod(n, d)}})
         : n \in {IF k >= 0 THEN shl(p, k) ELSE p},
           d \in {IF k >= 0 THEN q ELSE shl(q, 0 - k)}})

\* A double is neg, m, e: the value (-1)^neg * m * 2^e, with m odd, or m = 0
\* and e = 0; m has at most Precision binary digits and e >= MinExponent.
\* Infinity is m = 1, e = MaxExponent.
Precision == 53
MinExponent == 0 - 1074
MaxExponent == 1024
Zero == [neg |-> FALSE, m |-> <<>>, e |-> 0]
Infinity(neg) == [neg |-> neg, m |-> <<1>>, e |-> MaxExponent]
isFinite(x) == x.e < MaxExponent

\* the number of factors 2 of n > 0
RECURSIVE twos(_)
twos(n) == IF n % 2 = 1 THEN 0 ELSE 1 + twos(n \div 2)

\* the number of factors 2 of m > 0
factors2(m) ==
    The({15 * (i - 1) + twos(m[i]) : i \in {i \in 1..Len(m) :
            m[i] # 0 /\ \A j \in 1..(i - 1) : m[j] = 0}})

\* m * 2^e with the factors 2 of m moved to e
odd(neg, m0, e0) ==
    The({IF m = <<>> THEN Zero
         ELSE The({[neg |-> neg, m |-> shr(m, n), e |-> e + n] : n \in {factors2(m)}})
         : m \in {m0}, e \in {e0}})

\* the double nearest to (-1)^neg * p / q * 2^s, for p, q > 0: e1 is the
\* exponent of the last binary digit kept, at least MinExponent, and e2 is
\* e1 + 1 when rounding up gave one binary digit more
roundToDouble(neg, p0, q0, s0) ==
    The({The({The({The({IF bitlen(m2) + e2 > MaxExponent THEN Infinity(neg)
                        ELSE odd(neg, m2, e2)
                        : e2 \in {IF bitlen(m1) > Precision THEN e1 + 1 ELSE e1},
                          m2 \in {IF bitlen(m1) > Precision
                                  THEN nearestEven(p, q, s - e1 - 1) ELSE m1}})
                   : m1 \in {nearestEven(p, q, s - e1)}})
              : e1 \in {Max(MinExponent, bitlen(p) - bitlen(q) + s - Precision)}})
         : p \in {p0}, q \in {q0}, s \in {s0}})

\* a decimal literal m * 10^e of a JSON text, and the double it parses to
Num(m, e) == [m |-> m, e |-> e]

RECURSIVE pow10(_)
pow10(n) ==
    IF n = 0 THEN <<1>>
    ELSE IF n % 2 = 1 THEN times(pow10(n - 1), 10)
    ELSE The({mul(h, h) : h \in {pow10(n \div 2)}})

double(literal) ==
    IF literal.m = 0 THEN Zero
    ELSE roundToDouble(literal.m < 0,
            IF literal.e >= 0
            THEN mul(nat(IF literal.m < 0 THEN 0 - literal.m ELSE literal.m), pow10(literal.e))
            ELSE nat(IF literal.m < 0 THEN 0 - literal.m ELSE literal.m),
            IF literal.e >= 0 THEN <<1>> ELSE pow10(0 - literal.e), 0)

\* the double that the literal 1e-322 parses to: the subnormal 5 * 2^-1072
Literal1e322 == [neg |-> FALSE, m |-> <<5>>, e |-> 0 - 1072]

\* x <= 0
leqZero(x) == x.neg \/ x.m = <<>>

\* x / y
fdiv(x0, y0) ==
    The({IF x.m = <<>> THEN Zero
         ELSE IF ~isFinite(x) \/ y.m = <<>> THEN Infinity(x.neg # y.neg)
         ELSE IF ~isFinite(y) THEN Zero
         ELSE roundToDouble(x.neg # y.neg, x.m, y.m, x.e - y.e)
         : x \in {x0}, y \in {y0}})

\* x * y
fmul(x0, y0) ==
    The({IF x.m = <<>> \/ y.m = <<>> THEN Zero
         ELSE IF ~isFinite(x) \/ ~isFinite(y) THEN Infinity(x.neg # y.neg)
         ELSE roundToDouble(x.neg # y.neg, mul(x.m, y.m), <<1>>, x.e + y.e)
         : x \in {x0}, y \in {y0}})

\* -x
fneg(x0) == The({IF x.m = <<>> THEN x ELSE [x EXCEPT !.neg = ~x.neg] : x \in {x0}})

\* a - b or b - a, the one that is not negative, times 2^e, with the sign
\* of the larger of the two
signedDifference(xneg, a0, yneg, b0, e) ==
    The({IF a = b THEN Zero
         ELSE IF less(a, b) THEN roundToDouble(yneg, sub(b, a), <<1>>, e)
         ELSE roundToDouble(xneg, sub(a, b), <<1>>, e)
         : a \in {a0}, b \in {b0}})

\* x + y
fadd(x0, y0) ==
    The({IF x.m = <<>> THEN y
         ELSE IF y.m = <<>> THEN x
         ELSE IF ~isFinite(x) THEN x
         ELSE IF ~isFinite(y) THEN y
         ELSE IF x.neg = y.neg
         THEN roundToDouble(x.neg, add(shl(x.m, x.e - Min(x.e, y.e)),
                                       shl(y.m, y.e - Min(x.e, y.e))), <<1>>, Min(x.e, y.e))
         ELSE signedDifference(x.neg, shl(x.m, x.e - Min(x.e, y.e)),
                         y.neg, shl(y.m, y.e - Min(x.e, y.e)), Min(x.e, y.e))
         : x \in {x0}, y \in {y0}})

\* x - y
fsub(x, y) == fadd(x, fneg(y))

\* x < y
fless(x0, y0) == The({x # y /\ fsub(x, y).neg : x \in {x0}, y \in {y0}})

\* Math.round(x): the integer nearest to x, a tie to the larger one
MathRound(x0) ==
    The({IF x.e >= 0 THEN x
         ELSE The({odd(x.neg, IF x.neg /\ h.r = <<>> THEN sub(h.q, <<1>>) ELSE h.q, 0)
                   : h \in {divmod(add(x.m, shl(<<1>>, 0 - x.e - 1)), shl(<<1>>, 0 - x.e))}})
         : x \in {x0}})

\* x / 1000
div1000(x) == fdiv(x, double(Num(1000, 0)))

(* ------------------------------ backoff delay --------------------------- *)
\* baseDelay, maxDelay and backoffMultiplier of DEFAULT_RETRY_OPTIONS
DEFAULT_RETRY_DELAYS ==
    [baseDelay |-> double(Num(1000, 0)),
     maxDelay |-> double(Num(30000, 0)),
     backoffMultiplier |-> double(Num(15, 0 - 1))]

\* Math.pow(x, n) for an integer n >= 0, where the powers of x are doubles
RECURSIVE MathPow(_, _)
MathPow(x0, n) ==
    The({IF n = 0 THEN double(Num(1, 0)) ELSE fmul(MathPow(x, n - 1), x) : x \in {x0}})

\* Math.min(x, y)
MathMin(x0, y0) == The({IF fless(y, x) THEN y ELSE x : x \in {x0}, y \in {y0}})

\* calculateBackoffDelay(attempt, baseDelay, multiplier, maxDelay)
calculateBackoffDelay(attempt, baseDelay, multiplier, maxDelay) ==
    LET delay == fmul(baseDelay, MathPow(multiplier, attempt - 1))
    IN  MathMin(delay, maxDelay)

\* addJitter(delay, jitterFactor), where Math.random() returns random
addJitter(delay0, jitterFactor, random) ==
    The({fadd(delay, jitter)
         : delay \in {delay0}, jitter \in {fmul(fmul(delay0, jitterFactor), random)}})

\* the default of jitterFactor
DefaultJitterFactor == double(Num(1, 0 - 1))

\* { ...DEFAULT_RETRY_OPTIONS, ...options }, the delays: an option that is
\* not given takes the default
withDefaults(options) ==
    [k \in DOMAIN DEFAULT_RETRY_DELAYS |->
        IF options[k] = Absent THEN DEFAULT_RETRY_DELAYS[k] ELSE options[k][1]]

\* x || d for a number x: d when x is 0
orElse(x, d) == IF x = Zero THEN d ELSE x

\* the catch block of retryWithBackoff from `const baseDelay` to the argument
\* of sleep: the delay and the delay with jitter
backoffDelay(options, attempt, random) ==
    The({The({The({[delay |-> delay,
                    delayWithJitter |-> addJitter(delay, DefaultJitterFactor, random)]
                   : delay \in {calculateBackoffDelay(attempt, baseDelay, multiplier, maxDelay)}})
              : baseDelay \in {orElse(opts.baseDelay, double(Num(1000, 0)))},
                multiplier \in {orElse(opts.backoffMultiplier, double(Num(15, 0 - 1)))},
                maxDelay \in {orElse(opts.maxDelay, double(Num(30000, 0)))}})
         : opts \in {withDefaults(options)}})

(* ------------------------------- the files ----------------------------- *)
\* MAX_FILE_SIZE of ImageUploadInterface and MAX_IMAGE_SIZE of
\* secureImageProcessing
MAX_FILE_SIZE == 5 * 1024 * 1024
MAX_IMAGE_SIZE == 5 * 1024 * 1024
SUPPORTED_FORMATS == {"image/jpeg", "image/png", "image/webp"}
ALLOWED_MIME_TYPES == {"image/jpeg", "image/png", "image/webp"}

\* fileToBase64(file): the data URL of the file, of which the model keeps the
\* number of bytes it encodes
fileToBase64(file) == [bytes |-> file.size]

\* getBase64Size of the base64 part of a data URL
getBase64Size(base64Data) == base64Data.bytes

\* validateAndSanitizeImage(imageData, mimeType): isValid and, when it is
\* not, which check failed (what FileReader encodes is valid base64)
validateAndSanitizeImage(imageData, mimeType) ==
    IF mimeType \notin ALLOWED_MIME_TYPES
    THEN [isValid |-> FALSE, error |-> "Unsupported image type",
          message |-> <<"U", "n", "s", "u", "p", "p", "o", "r", "t", "e", "d", " ", "i", "m", "a", "g", "e", " ", "t", "y", "p", "e">>]
    ELSE IF getBase64Size(imageData) > MAX_IMAGE_SIZE
    THEN [isValid |-> FALSE, error |-> "Image too large",
          message |-> <<"I", "m", "a", "g", "e", " ", "t", "o", "o", " ", "l", "a", "r", "g", "e">>]
    ELSE [isValid |-> TRUE, error |-> "undefined", message |-> <<>>]

(* --------------------------- the analyze route ------------------------- *)
\* what the model answers, by name; confidence in hundredths
ExtractedDataSamples ==
    [valid |-> [price |-> [value |-> double(Num(250, 0 - 2)), currency |-> "EUR", confidence |-> 90],
                weight |-> [value |-> double(Num(500, 0)), unit |-> "g", confidence |-> 90],
                product |-> [name |-> "Leche", confidence |-> 90]],
     zeroPrice |-> [price |-> [value |-> double(Num(0, 0)), currency |-> "EUR", confidence |-> 90],
                    weight |-> [value |-> double(Num(500, 0)), unit |-> "g", confidence |-> 90],
                    product |-> [name |-> "Leche", confidence |-> 90]],
     zeroWeight |-> [price |-> [value |-> double(Num(250, 0 - 2)), currency |-> "EUR", confidence |-> 90],
                     weight |-> [value |-> double(Num(0, 0)), unit |-> "kg", confidence |-> 90],
                     product |-> [name |-> "Leche", confidence |-> 90]],
     badUnit |-> [price |-> [value |-> double(Num(250, 0 - 2)), currency |-> "EUR", confidence |-> 90],
                  weight |-> [value |-> double(Num(500, 0)), unit |-> "oz", confidence |-> 90],
                  product |-> [name |-> "Leche", confidence |-> 90]],
     blankName |-> [price |-> [value |-> double(Num(250, 0 - 2)), currency |-> "EUR", confidence |-> 90],
                    weight |-> [value |-> double(Num(1, 0)), unit |-> "l", confidence |-> 90],
                    product |-> [name |-> " ", confidence |-> 90]],
     noCurrency |-> [price |-> [value |-> double(Num(250, 0 - 2)), currency |-> "", confidence |-> 90],
                     weight |-> [value |-> double(Num(500, 0)), unit |-> "g", confidence |-> 30],
                     product |-> [name |-> "Leche", confidence |-> 90]],
     unsurePrice |-> [price |-> [value |-> double(Num(250, 0 - 2)), currency |-> "EUR", confidence |-> 20],
                      weight |-> [value |-> double(Num(500, 0)), unit |-> "g", confidence |-> 90],
                      product |-> [name |-> "Leche", confidence |-> 90]],
     unsureProduct |-> [price |-> [value |-> double(Num(250, 0 - 2)), currency |-> "EUR", confidence |-> 90],
                        weight |-> [value |-> double(Num(500, 0)), unit |-> "oz", confidence |-> 90],
                        product |-> [name |-> "Leche", confidence |-> 29]],
     tinyWeight |-> [price |-> [value |-> double(Num(250, 0 - 2)), currency |-> "EUR", confidence |-> 90],
                     weight |-> [value |-> Literal1e322, unit |-> "g", confidence |-> 90],
                     product |-> [name |-> "Leche", confidence |-> 90]]]

\* const minConfidence = 0.3, in hundredths
minConfidence == 30

\* the route's checks of the extracted data: the names pushed to errors
routeErrors(data) ==
    (IF data.price.confidence < minConfidence \/ leqZero(data.price.value)
     THEN {"price information"} ELSE {})
    \cup (IF data.weight.confidence < minConfidence \/ leqZero(data.weight.value)
          THEN {"weight/volume information"} ELSE {})
    \cup (IF data.product.confidence < minConfidence \/ data.product.name = ""
          THEN {"product name"} ELSE {})

\* the code the route picks from errors
routeErrorCode(errors) ==
    IF "price information" \in errors THEN "NO_PRICE_DETECTED"
    ELSE IF "weight/volume information" \in errors THEN "NO_WEIGHT_DETECTED"
    ELSE "NO_PRODUCT_DETECTED"

\* the messages of the Errors the client of the generative model throws, by
\* name, as sequences of characters:
\*   invalidKey     API key not valid
\*   quotaExceeded  quota exceeded
\*   rateLimit      rate limit reached
\*   keyQuota       API key quota exceeded
\*   fetchError     Error fetching from generateContent
\*   lowerCase      invalid api key
\*   overloaded     The model is overloaded
AiErrorMessages ==
    [invalidKey |-> <<"A", "P", "I", " ", "k", "e", "y", " ", "n", "o", "t", " ", "v", "a", "l", "i", "d">>,
     quotaExceeded |-> <<"q", "u", "o", "t", "a", " ", "e", "x", "c", "e", "e", "d", "e", "d">>,
     rateLimit |-> <<"r", "a", "t", "e", " ", "l", "i", "m", "i", "t", " ", "r", "e", "a", "c", "h", "e", "d">>,
     keyQuota |-> <<"A", "P", "I", " ", "k", "e", "y", " ", "q", "u", "o", "t", "a", " ", "e", "x", "c", "e", "e", "d", "e", "d">>,
     fetchError |-> <<"E", "r", "r", "o", "r", " ", "f", "e", "t", "c", "h", "i", "n", "g", " ", "f", "r", "o", "m", " ", "g", "e", "n", "e", "r", "a", "t", "e", "C", "o", "n", "t", "e", "n", "t">>,
     lowerCase |-> <<"i", "n", "v", "a", "l", "i", "d", " ", "a", "p", "i", " ", "k", "e", "y">>,
     overloaded |-> <<"T", "h", "e", " ", "m", "o", "d", "e", "l", " ", "i", "s", " ", "o", "v", "e", "r", "l", "o", "a", "d", "e", "d">>]

\* str.includes(searchString)
includes(str, searchString) ==
    \E i \in 1..(Len(str) - Len(searchString) + 1) :
        SubSeq(str, i, i + Len(searchString) - 1) = searchString

\* the indicators the catch block of the route looks for
ApiKeyIndicator == <<"A", "P", "I", " ", "k", "e", "y">>
QuotaIndicator == <<"q", "u", "o", "t", "a">>
RateIndicator == <<"r", "a", "t", "e">>

\* what the generative model does when the route calls it:
\*   data k        it answers JSON that parses to ExtractedDataSamples[k]
\*   text          it answers text that does not parse
\*   partial       it answers JSON without price, weight or product
\*   throws k      generateContent throws an Error with message AiErrorMessages[k]
AiOutcomes ==
    {[kind |-> "data", of |-> k] : k \in DOMAIN ExtractedDataSamples}
        \cup {[kind |-> "text", of |-> ""], [kind |-> "partial", of |-> ""]}
        \cup {[kind |-> "throws", of |-> k] : k \in DOMAIN AiErrorMessages}

\* a response with success: false made from an AppError
errorResponse(error, status) ==
    [success |-> FALSE, status |-> status, data |-> "undefined",
     error |-> [code |-> error.code, message |-> error.message,
                suggestions |-> Some(error.suggestions)]]

\* no response: the request failed
NoResponse ==
    [success |-> FALSE, status |-> 0, data |-> "undefined",
     error |-> [code |-> "undefined", message |-> "undefined", suggestions |-> Absent]]

\* the answers of the catch block of the route
authenticationResponse ==
    errorResponse(createAppError("API_ERROR", Some("API authentication failed"), Absent), 401)
rateLimitResponse ==
    errorResponse(createAppError("API_RATE_LIMIT", Some("API rate limit exceeded"), Absent), 429)
genericResponse ==
    errorResponse(createAppError("NETWORK_ERROR", Some("Network or server error"), Absent), 500)

\* a catch block that looks for the quota indicators first
routeCatchQuotaFirst(thrown) ==
    IF thrown.isError /\ (includes(thrown.message, QuotaIndicator)
                            \/ includes(thrown.message, RateIndicator))
    THEN rateLimitResponse
    ELSE IF thrown.isError /\ includes(thrown.message, ApiKeyIndicator)
    THEN authenticationResponse
    ELSE genericResponse

\* the catch block of POST for what was thrown in its try block: isError is
\* `error instanceof Error`, message is error.message
routeCatch(thrown) ==
    IF thrown.isError /\ includes(thrown.message, ApiKeyIndicator)
    THEN authenticationResponse
    ELSE IF thrown.isError /\ (includes(thrown.message, QuotaIndicator)
                                \/ includes(thrown.message, RateIndicator))
    THEN rateLimitResponse
    ELSE genericResponse

\* new Error(message), and the object createAppError returns (not an Error)
ThrownError(message) == [isError |-> TRUE, message |-> message, code |-> "undefined"]
ThrownAppError(code) == [isError |-> FALSE, message |-> <<>>, code |-> code]

\* POST(request): the response to a body {image, imageType} when the
\* generative model does ai; imageType is "" when the body has none.
POST(image, imageType, ai) ==
    IF imageType = ""
    THEN errorResponse(
            createAppError("INVALID_IMAGE_FORMAT", Some("Missing image data or type"), Absent),
            400)
    ELSE IF ~validateAndSanitizeImage(image, imageType).isValid
    THEN routeCatch(ThrownError(validateAndSanitizeImage(image, imageType).message))
    ELSE IF ai.kind = "throws" THEN routeCatch(ThrownError(AiErrorMessages[ai.of]))
    ELSE IF ai.kind \in {"text", "partial"} THEN routeCatch(ThrownAppError("API_ERROR"))
    ELSE LET extractedData == ExtractedDataSamples[ai.of]
             errors == routeErrors(extractedData)
         IN  IF errors # {}
             THEN errorResponse(
                    createAppError(routeErrorCode(errors),
                                   Some("Could not clearly detect"), Absent), 422)
             ELSE [success |-> TRUE, status |-> 200, data |-> ai.of,
                   error |-> [code |-> "undefined", message |-> "undefined",
                              suggestions |-> Absent]]

(* ------------------------------ extractData ---------------------------- *)
\* const maxSize = 10 * 1024 * 1024
maxSize == 10 * 1024 * 1024
supportedTypes == {"image/jpeg", "image/png", "image/webp"}

\* reader.onerror: new Error('Failed to read file')
FileReadError == PlainError(0)

\* name.trim().length === 0, for the names of the samples
trimIsEmpty(name) == name \in {"", " "}

\* validateExtractedData(data): the AppError, or None for null
validateExtractedData(data) ==
    IF leqZero(data.price.value) \/ data.price.currency = ""
    THEN createAppError("NO_PRICE_DETECTED", Absent, Absent)
    ELSE IF leqZero(data.weight.value) \/ data.weight.unit = ""
    THEN createAppError("NO_WEIGHT_DETECTED", Absent, Absent)
    ELSE IF data.weight.unit \notin {"g", "kg", "ml", "l"}
    THEN createAppError("NO_WEIGHT_DETECTED", Some("Invalid weight unit detected"),
                        Some(<<"Verifica que la unidad", "Asegurate de que sea una unidad estandar">>))
    ELSE IF data.product.name = "" \/ trimIsEmpty(data.product.name)
    THEN createAppError("NO_PRODUCT_DETECTED", Absent, Absent)
    ELSE None

\* the error retryImageAnalysis makes of a response with success: false
\* (attempt n makes an object of its own)
responseAppError(error, retryableErrors, n) ==
    [kind |-> "AppError", code |-> error.code, tag |-> n,
     message |-> error.message,
     userMessage |-> error.message,
     suggestions |-> IF error.suggestions = Absent THEN <<>> ELSE error.suggestions[1],
     recoverable |-> shouldRetryError([code |-> error.code], retryableErrors)]

\* the options retryWithBackoff gets from extractData: analysisOptions of
\* retryImageAnalysis (the defaults, maxRetries 3, the caller's onRetry),
\* which retryApiCall spreads over its own
ImageAnalysisOptions ==
    [maxRetries |-> 3, retryableErrors |-> DEFAULT_RETRY_OPTIONS.retryableErrors,
     onRetry |-> TRUE]

\* the operation retryImageAnalysis hands to retryApiCall, at attempt n:
\* fetch rejects, or the response is read and either returned or turned
\* into an AppError that is thrown
analysisOperation(fetched, n) ==
    IF fetched.kind = "rejected" THEN PlainError(n)
    ELSE IF ~fetched.response.success
    THEN responseAppError(fetched.response.error, ImageAnalysisOptions.retryableErrors, n)
    ELSE Value(fetched.response.data)

\* the options retryWithBackoff gets from resilientApiCall(operation):
\* DEFAULT_RETRY_OPTIONS, and retryApiCall's retryableErrors and onRetry
ApiCallOptions ==
    [maxRetries |-> 3, retryableErrors |-> ApiRetryableErrors, onRetry |-> TRUE]

\* the state of an extractData call that has not been made
\* callbacks: the calls made to onExtractionStart / Complete / Error, in order
IdleExtraction ==
    [pc |-> "idle", file |-> [size |-> 0, type |-> ""], isExtracting |-> FALSE,
     error |-> None, callbacks |-> <<>>, runs |-> 0, ai |-> [kind |-> "none", of |-> ""]]

\* pre-call checks that put the format before the size
preCallCheckFormatFirst(file) ==
    IF file.type \notin supportedTypes THEN "INVALID_IMAGE_FORMAT"
    ELSE IF file.size > maxSize THEN "IMAGE_TOO_LARGE"
    ELSE "ok"

\* the two checks at the head of extractData: the code of the error, or ok
preCallCheck(file) ==
    IF file.size > maxSize THEN "IMAGE_TOO_LARGE"
    ELSE IF file.type \notin supportedTypes THEN "INVALID_IMAGE_FORMAT"
    ELSE "ok"

\* extractData(file) up to `await fileToBase64(file)`, or to its return when
\* a pre-call check fails (finally: setIsExtracting(false))
extractDataBegin(x, file) ==
    LET started == <<[cb |-> "onExtractionStart", val |-> None]>>
        checked == preCallCheck(file)
    IN
    IF checked # "ok"
    THEN [x EXCEPT !.pc = "done", !.file = file, !.isExtracting = FALSE,
                   !.error = createAppError(checked, Absent, Absent),
                   !.callbacks = Append(started, [cb |-> "onExtractionError",
                                                  val |-> createAppError(checked, Absent, Absent)]),
                   !.runs = x.runs + 1, !.ai = IdleExtraction.ai]
    ELSE [x EXCEPT !.pc = "reading", !.file = file, !.isExtracting = TRUE,
                   !.error = None, !.callbacks = started, !.runs = x.runs + 1,
                   !.ai = IdleExtraction.ai]

\* a catch block that keeps the error to itself
extractDataFailsSilently(x, error) ==
    [x EXCEPT !.pc = "done", !.isExtracting = FALSE, !.error = error]

\* the catch block of extractData, then finally
extractDataFails(x, error) ==
    [x EXCEPT !.pc = "done", !.isExtracting = FALSE, !.error = error,
              !.callbacks = Append(x.callbacks, [cb |-> "onExtractionError", val |-> error])]

\* extractData from the settling of `await retryImageAnalysis(...)` with
\* outcome (a Value naming result.data, or what was thrown)
extractDataSettles(x, outcome) ==
    IF ~IsValue(outcome) THEN extractDataFails(x, outcome)
    ELSE LET validationError == validateExtractedData(ExtractedDataSamples[outcome.code]) IN
         IF validationError # None
         THEN extractDataFails(x, validationError)
         ELSE [x EXCEPT !.pc = "done", !.isExtracting = FALSE,
                        !.callbacks = Append(x.callbacks,
                                             [cb |-> "onExtractionComplete", val |-> outcome])]

(* ------------------- WeightNormalizer, UnitPriceCalculator ------------- *)
\* what a function that can throw does: it returns val, or throws the Error
\* val made with message
Returns(v) == [thrown |-> FALSE, val |-> v, message |-> ""]
Throws(e, message) == [thrown |-> TRUE, val |-> e, message |-> message]

\* a normalize that gives every weight in kg
normalizeAllToKg(weight) ==
    IF weight.unit \notin {"g", "kg", "ml", "l"}
    THEN Throws(PlainError(0), "Unsupported unit")
    ELSE IF leqZero(weight.value) THEN Throws(PlainError(0), "Invalid weight value")
    ELSE Returns([value |-> IF weight.unit \in {"g", "ml"}
                            THEN div1000(weight.value) ELSE weight.value,
                  unit |-> "kg",
                  originalValue |-> weight.value,
                  originalUnit |-> weight.unit])

\* WeightNormalizer.normalize(weight)
normalize(weight) ==
    IF weight.unit \notin {"g", "kg", "ml", "l"}
    THEN Throws(PlainError(0), "Unsupported unit")
    ELSE IF leqZero(weight.value) THEN Throws(PlainError(0), "Invalid weight value")
    ELSE Returns([value |-> IF weight.unit \in {"g", "ml"}
                            THEN div1000(weight.value) ELSE weight.value,
                  unit |-> IF weight.unit \in {"g", "kg"} THEN "kg" ELSE "l",
                  originalValue |-> weight.value,
                  originalUnit |-> weight.unit])

\* Math.round(x / y * 100) / 100
roundedQuotient(x, y) ==
    fdiv(MathRound(fmul(fdiv(x, y), double(Num(100, 0)))), double(Num(100, 0)))

\* UnitPriceCalculator.calculate(price, normalizedWeight)
calculate(price, normalizedWeight) ==
    IF leqZero(price.value) THEN Throws(PlainError(0), "Invalid price value")
    ELSE IF leqZero(normalizedWeight.value)
    THEN Throws(PlainError(0), "Invalid normalized weight value")
    ELSE Returns([pricePerUnit |-> roundedQuotient(price.value, normalizedWeight.value),
                  unit |-> normalizedWeight.unit,
                  currency |-> price.currency,
                  originalPrice |-> price.value,
                  originalWeight |-> normalizedWeight])

\* UnitPriceCalculator.calculatePriceDifference(price1, price2)
calculatePriceDifference(price1, price2) ==
    IF price1.unit # price2.unit THEN Throws(PlainError(0), "Cannot compare different units")
    ELSE IF price1.currency # price2.currency
    THEN Throws(PlainError(0), "Cannot compare different currencies")
    ELSE IF price2.pricePerUnit.m = <<>>
    THEN Throws(PlainError(0), "Cannot calculate percentage with zero price")
    ELSE LET difference ==
                fmul(fdiv(fsub(price1.pricePerUnit, price2.pricePerUnit), price2.pricePerUnit),
                     double(Num(100, 0)))
         IN  Returns(fdiv(MathRound(fmul(difference, double(Num(100, 0)))),
                          double(Num(100, 0))))

\* what handleExtractionComplete computes for each of the samples: the
\* outcome of WeightNormalizer.normalize(data.weight), and the outcome of
\* UnitPriceCalculator.calculate(data.price, normalizedWeight) where the
\* normalization returned
normalizedSamples ==
    [data \in DOMAIN ExtractedDataSamples |-> normalize(ExtractedDataSamples[data].weight)]
calculatedSamples ==
    [data \in DOMAIN ExtractedDataSamples |->
        IF normalizedSamples[data].thrown THEN normalizedSamples[data]
        ELSE calculate(ExtractedDataSamples[data].price, normalizedSamples[data].val)]

(* ------------------------- UnitPriceCalculator: display ----------------- *)
\* A text is the sequence of its characters.
EUR == <<"E", "U", "R">>
USD == <<"U", "S", "D">>
GBP == <<"G", "B", "P">>
JPY == <<"J", "P", "Y">>

\* currencyConfig of formatPrice
currencyConfig ==
    [currency \in {EUR, USD, GBP, JPY} |->
        CASE currency = EUR -> [symbol |-> <<"€">>, position |-> "after"]
          [] currency = USD -> [symbol |-> <<"$">>, position |-> "before"]
          [] currency = GBP -> [symbol |-> <<"£">>, position |-> "before"]
          [] currency = JPY -> [symbol |-> <<"¥">>, position |-> "before"]]

\* the decimal digits of an integer n >= 0
DecimalDigits == <<"0", "1", "2", "3", "4", "5", "6", "7", "8", "9">>
RECURSIVE decimal(_)
decimal(n) ==
    IF n < 10 THEN <<DecimalDigits[n + 1]>>
    ELSE decimal(n \div 10) \o <<DecimalDigits[(n % 10) + 1]>>

\* digits with separator between its groups of three digits
RECURSIVE grouped(_, _)
grouped(digits, separator) ==
    IF Len(digits) <= 3 THEN digits
    ELSE grouped(SubSeq(digits, 1, Len(digits) - 3), separator)
            \o <<separator>> \o SubSeq(digits, Len(digits) - 2, Len(digits))

\* 100 * x for a price x >= 0 of at most two decimals below 2^30 / 100, as
\* calculate returns them: the integer nearest to it
hundredths(x) ==
    The({digit(n, 1) + Base * digit(n, 2) : n \in {nearestEven(times(x.m, 100), <<1>>, x.e)}})

\* the locales Intl.NumberFormat has, with the decimal separator, the
\* separator of the groups and the least number that is written in groups
NumberFormats ==
    [locale \in {"es-ES", "en-US"} |->
        IF locale = "es-ES" THEN [decimal |-> ",", group |-> ".", grouping |-> 10000]
        ELSE [decimal |-> ".", group |-> ",", grouping |-> 1000]]

\* new Intl.NumberFormat(locale, { minimumFractionDigits: 2,
\* maximumFractionDigits: 2 }).format(price), which throws a RangeError for a
\* locale that is no language tag; the catch block gives price.toFixed(2)
formatValue(price, locale) ==
    The({IF locale \in DOMAIN NumberFormats
         THEN (IF n \div 100 >= NumberFormats[locale].grouping
               THEN grouped(decimal(n \div 100), NumberFormats[locale].group)
               ELSE decimal(n \div 100))
              \o <<NumberFormats[locale].decimal>> \o
              <<DecimalDigits[((n \div 10) % 10) + 1], DecimalDigits[(n % 10) + 1]>>
         ELSE decimal(n \div 100) \o <<".">> \o
              <<DecimalDigits[((n \div 10) % 10) + 1], DecimalDigits[(n % 10) + 1]>>
         : n \in {hundredths(price)}})

\* formatPrice(price, currency, locale)
formatPrice(price, currency, locale) ==
    LET config == IF currency \in DOMAIN currencyConfig THEN currencyConfig[currency]
                  ELSE [symbol |-> currency, position |-> "before"]
        formattedValue == formatValue(price, locale)
    IN  IF config.position = "after" THEN formattedValue \o config.symbol
        ELSE config.symbol \o formattedValue

\* a getUnitLabel that labels the litre with a small letter
getUnitLabelSmall(unit) == IF unit = "kg" THEN <<"k", "g">> ELSE <<"l">>

\* getUnitLabel(unit), for the units of a UnitPriceResult
getUnitLabel(unit) == IF unit = "kg" THEN <<"k", "g">> ELSE <<"L">>

\* formatUnitPrice(result, locale)
formatUnitPrice(result, locale) ==
    LET formattedPrice == formatPrice(result.pricePerUnit, result.currency, locale)
        unitLabel == getUnitLabel(result.unit)
    IN  formattedPrice \o <<"/">> \o unitLabel

(* ---------------------------- navigationState -------------------------- *)
\* createProcessingPipeline(): the statuses of the five steps, in the order
\* image validation, AI extraction, data validation, unit normalization,
\* price calculation
createProcessingPipeline ==
    [steps |-> <<"completed", "processing", "pending", "pending", "pending">>,
     currentStep |-> 1, totalSteps |-> 5]

EmptyPipeline == [steps |-> <<>>, currentStep |-> 0, totalSteps |-> 0]

\* createInitialState()
createInitialState ==
    [currentView |-> "upload", processingState |-> EmptyPipeline,
     result |-> None, error |-> None, history |-> <<>>]

\* a reducer that keeps ten earlier results next to the new one
navigationReducerKeepsTen(state, action) ==
    IF action.type = "COMPLETE_PROCESSING"
    THEN [state EXCEPT !.currentView = "result", !.result = action.result,
                       !.history = <<action.result>>
                                   \o SubSeq(@, 1, IF Len(@) < 10 THEN Len(@) ELSE 10)]
    ELSE state

\* navigationReducer(state, action); stepIndex counts from 0
navigationReducer(state, action) ==
    CASE action.type = "START_PROCESSING" ->
            [state EXCEPT !.currentView = "processing",
                          !.processingState = createProcessingPipeline,
                          !.error = None, !.result = None]
      [] action.type = "UPDATE_PROCESSING_STEP" ->
            [state EXCEPT
                !.processingState.steps =
                    [i \in DOMAIN @ |-> IF i = action.stepIndex + 1 THEN action.status ELSE @[i]],
                !.processingState.currentStep =
                    IF action.status = "completed"
                    THEN action.stepIndex + 1 ELSE action.stepIndex]
      [] action.type = "COMPLETE_PROCESSING" ->
            [state EXCEPT !.currentView = "result", !.result = action.result,
                          !.history = <<action.result>>
                                      \o SubSeq(@, 1, IF Len(@) < 9 THEN Len(@) ELSE 9)]
      [] action.type = "SHOW_ERROR" ->
            [state EXCEPT !.currentView = "error", !.error = action.error]
      [] action.type = "RESET" ->
            [state EXCEPT !.currentView = "upload", !.result = None, !.error = None,
                          !.processingState = EmptyPipeline]
      [] action.type = "RETRY" ->
            [state EXCEPT !.currentView = "upload", !.error = None]
      [] OTHER -> state

(* ------------------------------- Home page ----------------------------- *)
\* the page: the reducer's state, the uploadState of ImageUploadInterface,
\* per caller the handleFileSelect call in flight and the timers of the
\* handleExtractionComplete call in flight
\*   select[p].pc: idle | reading
\*   pipe[p].pc: none | t400 | t600 | t800 | t500 (the timer that is pending)
IdleSelect == [pc |-> "idle", file |-> [size |-> 0, type |-> ""]]
IdlePipe == [pc |-> "none", data |-> "", normalizedWeight |-> None, result |-> None]

updateProcessingStep(app, stepIndex, status) ==
    navigationReducer(app, [type |-> "UPDATE_PROCESSING_STEP",
                            stepIndex |-> stepIndex, status |-> status])

\* handleExtractionStart()
handleExtractionStart(pg) ==
    [pg EXCEPT !.app = navigationReducer(@, [type |-> "START_PROCESSING"])]

\* handleExtractionError(error)
handleExtractionError(pg, error) ==
    [pg EXCEPT !.app = navigationReducer(@, [type |-> "SHOW_ERROR", error |-> error])]

\* a handleExtractionComplete that sets no timer
handleExtractionCompleteSetsNoTimer(pg, p, data) ==
    [pg EXCEPT !.extractedData = data,
               !.app = updateProcessingStep(updateProcessingStep(@, 1, "completed"),
                                            2, "processing")]

\* a handleExtractionComplete that goes on with the normalization at once
handleExtractionCompleteSkipsValidation(pg, p, data) ==
    [pg EXCEPT !.extractedData = data,
               !.app = updateProcessingStep(updateProcessingStep(@, 1, "completed"),
                                            3, "processing"),
               !.pipe[p] = [IdlePipe EXCEPT !.pc = "t600", !.data = data]]

\* handleExtractionComplete(data) up to its setTimeout
handleExtractionComplete(pg, p, data) ==
    [pg EXCEPT !.extractedData = data,
               !.app = updateProcessingStep(updateProcessingStep(@, 1, "completed"),
                                            2, "processing"),
               !.pipe[p] = [IdlePipe EXCEPT !.pc = "t400", !.data = data]]

\* the callbacks of useDataExtractor are the three handlers of the page
RECURSIVE deliver(_, _, _)
deliver(pg, p, callbacks) ==
    IF callbacks = <<>> THEN pg
    ELSE LET c == Head(callbacks)
             after == CASE c.cb = "onExtractionStart" -> handleExtractionStart(pg)
                        [] c.cb = "onExtractionError" -> handleExtractionError(pg, c.val)
                        [] c.cb = "onExtractionComplete" ->
                                handleExtractionComplete(pg, p, c.val.code)
         IN  deliver(after, p, Tail(callbacks))

\* the callbacks an extractData step made
newCallbacks(before, after) ==
    IF after.runs # before.runs THEN after.callbacks
    ELSE SubSeq(after.callbacks, Len(before.callbacks) + 1, Len(after.callbacks))

(* ------------------------------- state -------------------------------- *)
VARIABLES
    breaker,             \* the CircuitBreaker instance the callers share
    now,                 \* Date.now()
    calls,               \* per caller: its execute() call, running or last finished
    executeCalls,        \* execute() calls made so far
    consecutiveFailures, \* operations that failed since the last one that succeeded
    actor,               \* the caller whose code ran in the last step (0: none)
    retry,               \* per caller: its retryWithBackoff call, running or last finished
    ext,                 \* per caller: its extractData call, running or last finished
    page,                \* the Home page
    errorCase,           \* the arguments and the results of the errorHandling calls made
    route,               \* a request to the analyze route and the response to it
    calc,                \* a weight and a price, and what normalize and calculate did
    backoff,             \* the arguments and the results of a backoff delay computation
    display,             \* a price to display and the text it was formatted to
    nav,                 \* the reducer's state under the actions dispatched to it
    secure,              \* a SecureImageProcessor and its processImage calls
    component            \* a DataExtractor component: its file prop and its renders

vars == <<breaker, now, calls, executeCalls, consecutiveFailures, actor, retry, ext,
          page, errorCase, route, calc, backoff, display, nav, secure, component>>
uiVars == <<nav, secure, component>>
viewVars == <<display, uiVars>>
callVars == <<route, calc, backoff, viewVars>>
breakerVars == <<breaker, calls, executeCalls, consecutiveFailures>>

\* pc: idle | awaiting (the operation is in flight) | returned | thrown
\* invoked: times this call invoked its operation
\* entry: the breaker state the operation was invoked in
\* opOut: what the operation resolved with or threw; out: what execute did
IdleCall == [pc |-> "idle", invoked |-> 0, entry |-> "none", opOut |-> None, out |-> None]

\* the page as it is first rendered
InitialPage ==
    [app |-> createInitialState,
     uploadState |-> [isUploading |-> FALSE, error |-> "null"],
     extractedData |-> "null",
     select |-> [p \in Procs |-> IdleSelect],
     pipe |-> [p \in Procs |-> IdlePipe]]

\* nothing has been formatted
IdleDisplay ==
    [stage |-> "idle", result |-> [pricePerUnit |-> Zero, currency |-> EUR, unit |-> "kg"],
     locale |-> "es-ES", formattedValue |-> <<>>, text |-> <<>>]

\* none of the calls below has been made
\* no action has been dispatched: createInitialState()
\*   completed: the results of the COMPLETE_PROCESSING actions, newest first
IdleNav == [state |-> createInitialState, completed |-> <<>>, dispatched |-> 0]

\* new SecureImageProcessor(): imageData = null, no processImage call made
\*   call[c].pc: idle | processing | resolved | rejected
\*   call[c].given: what the processor callback was called with
\*   a string of image data: whether it has a data URL prefix, and the bytes
\*   its base64 part encodes; NoData is null
NoData == [prefix |-> FALSE, bytes |-> 0 - 1]
IdleProcessImage == [pc |-> "idle", imageData |-> NoData, mimeType |-> "",
                     invoked |-> 0, given |-> NoData]
IdleSecure == [imageData |-> NoData, call |-> [c \in Procs |-> IdleProcessImage],
               made |-> 0]

\* a DataExtractor that has not been rendered
\*   started: extractData calls made for the file prop the component has
NoFile == [size |-> 0 - 1, type |-> ""]
IdleComponent == [file |-> NoFile, renders |-> 0, started |-> 0]

IdleUi == nav = IdleNav /\ secure = IdleSecure /\ component = IdleComponent
IdleView == display = IdleDisplay /\ IdleUi

\* no request has been sent to the analyze route
IdleRoute ==
    [image |-> fileToBase64([size |-> 0, type |-> ""]), imageType |-> "",
     ai |-> [kind |-> "none", of |-> ""], stage |-> "idle", response |-> NoResponse]

\* nothing has been normalized or calculated
NotCalled == [thrown |-> FALSE, val |-> None, message |-> "not called"]
IdleCalc ==
    [data |-> ExtractedDataSamples.valid, stage |-> "idle", normalized |-> NotCalled,
     given |-> None, result |-> NotCalled, difference |-> NotCalled]

\* no backoff delay has been computed
IdleBackoff ==
    [stage |-> "idle", attempt |-> 1,
     options |-> [baseDelay |-> Absent, maxDelay |-> Absent, backoffMultiplier |-> Absent],
     random |-> Zero, previous |-> Zero, delay |-> Zero, delayWithJitter |-> Zero]

\* no errorHandling call has been made
IdleErrorCase ==
    [code |-> "NETWORK_ERROR", originalMessage |-> Absent, customSuggestions |-> Absent,
     strategy |-> API_RETRY_STRATEGY, stage |-> "arguments", error |-> None,
     retryable |-> FALSE, recoverable |-> FALSE]

\* what an operation handed to execute() can resolve with or throw
OpOutcomes ==
    {Value("a"), PlainError(0), Nullish}

(* --------------------- CircuitBreaker.execute steps -------------------- *)
\* execute(operation) up to `await operation()`, or to the throw of the
\* circuit-open error
Execute(p) ==
    /\ calls[p].pc # "awaiting"
    /\ executeCalls < MaxCalls
    /\ executeCalls' = executeCalls + 1
    /\ actor' = p
    /\ breaker' = executeGate(breaker, now)
    /\ calls' = [calls EXCEPT ![p] =
            IF executeAdmits(breaker, now)
            THEN [pc |-> "awaiting", invoked |-> 1, entry |-> breaker'.state,
                  opOut |-> None, out |-> None]
            ELSE [pc |-> "thrown", invoked |-> 0, entry |-> "none",
                  opOut |-> None, out |-> CircuitOpenError]]
    /\ UNCHANGED <<now, consecutiveFailures, retry, ext, page, errorCase, callVars>>

\* the operation settles: execute() resumes in its try or its catch
OperationSettles(p) ==
    /\ calls[p].pc = "awaiting"
    /\ \E outcome \in OpOutcomes :
        LET r == executeSettles(breaker, now, outcome) IN
        /\ breaker' = r.cb
        /\ calls' = [calls EXCEPT ![p] =
                [@ EXCEPT !.pc = IF IsValue(r.out) THEN "returned" ELSE "thrown",
                          !.opOut = outcome,
                          !.out = r.out]]
        /\ consecutiveFailures' = IF IsValue(outcome) THEN 0 ELSE consecutiveFailures + 1
    /\ actor' = p
    /\ UNCHANGED <<now, executeCalls, retry, ext, page, errorCase, callVars>>

\* time passes
Tick ==
    /\ now < MaxNow
    /\ now' = now + 1
    /\ actor' = 0
    /\ UNCHANGED <<breakerVars, retry, ext, page, errorCase, callVars>>

InitCB ==
    /\ IdleView
    /\ \E th \in 1..MaxThreshold, to \in 1..MaxTimeout : breaker = CircuitBreaker(th, to)
    /\ now = 0
    /\ calls = [p \in Procs |-> IdleCall]
    /\ executeCalls = 0
    /\ consecutiveFailures = 0
    /\ actor = 0
    /\ retry = [p \in Procs |-> IdleRetry]
    /\ ext = [p \in Procs |-> IdleExtraction]
    /\ page = InitialPage
    /\ errorCase = IdleErrorCase
    /\ route = IdleRoute
    /\ calc = IdleCalc
    /\ backoff = IdleBackoff

NextCB ==
    \/ \E p \in Procs : Execute(p)
    \/ \E p \in Procs : OperationSettles(p)
    \/ Tick

\* callers of one CircuitBreaker whose operations are opaque
SpecCB == InitCB /\ [][NextCB]_vars

(* ------------------------ CircuitBreaker: claims ----------------------- *)
\* the step in which caller p makes an execute() call
ExecuteStep(p) == executeCalls' = executeCalls + 1 /\ actor' = p
\* the step in which the operation of caller p settles
SettleStep(p) == calls[p].pc = "awaiting" /\ calls'[p].pc # "awaiting"
\* the breaker is open and its recovery timeout has not elapsed
OpenAndCooling(cb, t) == cb.state = "OPEN" /\ t - cb.lastFailureTime <= cb.recoveryTimeout

\* C1: from CLOSED with failureCount 0 the breaker stays CLOSED while fewer
\* than failureThreshold operations in a row have failed, and a failure
\* recorded in CLOSED opens it exactly when it is the failureThreshold-th in a
\* row; an execute() made while the breaker is OPEN and no more than
\* recoveryTimeout has elapsed since lastFailureTime throws the circuit-open
\* error, does not invoke its operation and leaves failures, lastFailureTime
\* and state as they were.
C1_OpensAtThresholdAndRejects ==
    /\ [](/\ breaker.failures = consecutiveFailures
          /\ consecutiveFailures < breaker.failureThreshold => breaker.state = "CLOSED")
    /\ [][/\ (breaker.state = "CLOSED" /\ consecutiveFailures' = consecutiveFailures + 1)
               => breaker'.state =
                    IF consecutiveFailures' = breaker.failureThreshold
                    THEN "OPEN" ELSE "CLOSED"
          /\ (breaker.state = "CLOSED" /\ breaker'.state = "OPEN")
               => consecutiveFailures' = breaker.failureThreshold
          /\ \A p \in Procs :
               (ExecuteStep(p) /\ OpenAndCooling(breaker, now))
               => /\ calls'[p].pc = "thrown"
                  /\ calls'[p].out = CircuitOpenError
                  /\ calls'[p].invoked = 0
                  /\ breaker' = breaker]_vars

\* C1 witness: a breaker with a threshold of at least 2 has opened at its
\* threshold and has rejected a call since
C1_Witness ==
    /\ breaker.failureThreshold >= 2
    /\ breaker.state = "OPEN"
    /\ consecutiveFailures = breaker.failureThreshold
    /\ \E p \in Procs : calls[p].pc = "thrown" /\ calls[p].out = CircuitOpenError

\* C2: an execute() made while the breaker is OPEN and more than
\* recoveryTimeout has elapsed since lastFailureTime sets the state to
\* HALF_OPEN, its operation sees that state, and the call invokes its
\* operation once and never throws the circuit-open error.
C2_ProbeAfterTimeout ==
    /\ [][\A p \in Procs :
            /\ (/\ ExecuteStep(p)
                /\ breaker.state = "OPEN"
                /\ now - breaker.lastFailureTime > breaker.recoveryTimeout)
               => /\ breaker'.state = "HALF_OPEN"
                  /\ calls'[p].pc = "awaiting"
                  /\ calls'[p].entry = "HALF_OPEN"
                  /\ calls'[p].invoked = 1
            /\ SettleStep(p) => calls'[p].invoked = calls[p].invoked]_vars
    /\ [](\A p \in Procs :
            calls[p].entry = "HALF_OPEN"
            => calls[p].invoked = 1 /\ calls[p].out # CircuitOpenError)

\* C2 witness: a probe is in flight
C2_Witness ==
    \E p \in Procs :
        /\ calls[p].pc = "awaiting"
        /\ calls[p].entry = "HALF_OPEN"
        /\ breaker.state = "HALF_OPEN"

\* C3: when the operation of an execute() call succeeds, whatever the state
\* before, the breaker has failures = 0 and state = CLOSED right after, and
\* execute returns the value the operation resolved with.
C3_SuccessResets ==
    [][\A p \in Procs :
         (SettleStep(p) /\ IsValue(calls'[p].opOut))
         => /\ breaker'.failures = 0
            /\ breaker'.state = "CLOSED"
            /\ calls'[p].pc = "returned"
            /\ calls'[p].out = calls'[p].opOut]_vars

\* C3 witness: a probe succeeded and closed the breaker
C3_Witness ==
    \E p \in Procs :
        /\ calls[p].pc = "returned"
        /\ calls[p].entry = "HALF_OPEN"
        /\ calls[p].out = Value("a")
        /\ breaker.state = "CLOSED"
        /\ breaker.failures = 0

\* C4: when the operation invoked in HALF_OPEN fails, right after that the
\* state is OPEN, failures is one more than before and lastFailureTime is
\* the time of that failure.
C4_FailedProbeReopens ==
    [][\A p \in Procs :
         (SettleStep(p) /\ calls[p].entry = "HALF_OPEN" /\ ~IsValue(calls'[p].opOut))
         => /\ breaker'.state = "OPEN"
            /\ breaker'.failures = breaker.failures + 1
            /\ breaker'.lastFailureTime = now]_vars

\* C5: when the operation was invoked and failed, execute throws the very
\* value the operation threw, never the circuit-open error.
C5_ErrorPropagatedUnchanged ==
    \A p \in Procs :
        (calls[p].pc = "thrown" /\ calls[p].invoked = 1)
        => /\ calls[p].out = calls[p].opOut
           /\ calls[p].out # CircuitOpenError

\* C5 witness: the first call failed, opened the breaker and threw its error
C5_Witness ==
    /\ executeCalls = 1
    /\ breaker.state = "OPEN"
    /\ \E p \in Procs :
        /\ calls[p].pc = "thrown"
        /\ calls[p].invoked = 1
        /\ calls[p].out = PlainError(0)

(* ------------------------ retryWithBackoff steps ----------------------- *)
\* the options a call is made with, after the defaults are merged in
RetryOptionChoices ==
    [maxRetries : 0..MaxRetries,
     retryableErrors : {{}, {"NETWORK_ERROR"}, ApiRetryableErrors},
     onRetry : BOOLEAN]

\* what the operation of attempt n can resolve with or throw; every attempt
\* throws an object of its own
AttemptOutcomes(n) ==
    {Value("a")} \cup {AppError(c, n) : c \in ErrorCode} \cup {PlainError(n), Nullish}

\* retryWithBackoff(operation, options) is called
RetryWithBackoff(p) ==
    /\ retry[p].pc = "idle"
    /\ \E opts \in RetryOptionChoices : retry' = [retry EXCEPT ![p] = retryBegin(opts)]
    /\ actor' = p
    /\ UNCHANGED <<breakerVars, now, ext, page, errorCase, callVars>>

\* the attempt in flight settles
AttemptSettles(p) ==
    /\ retry[p].pc = "calling"
    /\ \E outcome \in AttemptOutcomes(retry[p].attempt) :
        retry' = [retry EXCEPT ![p] = retryAttemptSettles(retry[p], outcome)]
    /\ actor' = p
    /\ UNCHANGED <<breakerVars, now, ext, page, errorCase, callVars>>

\* the backoff timer fires
SleepEnds(p) ==
    /\ retry[p].pc = "sleeping"
    /\ retry' = [retry EXCEPT ![p] = retrySleepEnds(retry[p])]
    /\ actor' = p
    /\ UNCHANGED <<breakerVars, now, ext, page, errorCase, callVars>>

InitRetry ==
    /\ IdleView
    /\ breaker = CircuitBreaker(1, 1)
    /\ now = 0
    /\ calls = [p \in Procs |-> IdleCall]
    /\ executeCalls = 0
    /\ consecutiveFailures = 0
    /\ actor = 0
    /\ retry = [p \in Procs |-> IdleRetry]
    /\ ext = [p \in Procs |-> IdleExtraction]
    /\ page = InitialPage
    /\ errorCase = IdleErrorCase
    /\ route = IdleRoute
    /\ calc = IdleCalc
    /\ backoff = IdleBackoff

NextRetry ==
    \/ RetryWithBackoff(1)
    \/ AttemptSettles(1)
    \/ SleepEnds(1)

\* one retryWithBackoff call (all the state of a call is its own)
SpecRetry == InitRetry /\ [][NextRetry]_vars

(* ----------------------- retryWithBackoff: claims ---------------------- *)
\* the entries of log whose ev is one of evs, in order
RECURSIVE Only(_, _)
Only(log, evs) ==
    IF log = <<>> THEN <<>>
    ELSE IF Head(log).ev \in evs THEN <<Head(log)>> \o Only(Tail(log), evs)
    ELSE Only(Tail(log), evs)

Invocations(r) == Len(Only(r.log, {"invoke"}))
Failures(r) == Only(r.log, {"fail"})
Last(seq) == seq[Len(seq)]
Finished(r) == r.pc \in {"returned", "thrown"}
\* every attempt that failed threw an object whose code is retryable
AllRetryable(r) ==
    \A i \in 1..Len(Failures(r)) :
        /\ Failures(r)[i].val.kind # "nullish"
        /\ Failures(r)[i].val.code \in r.opts.retryableErrors

\* the value thrown has no retryable code: its code is not in
\* retryableErrors, or it has no code at all
NotRetryable(r, e) == e.kind = "nullish" \/ e.code \notin r.opts.retryableErrors

\* C7: for maxRetries >= 1, a call returns only the value its operation
\* resolved with, after k < maxRetries failed attempts and k + 1 invocations
\* (one invocation when the first attempt succeeds); and while every failure
\* so far is retryable and fewer than maxRetries attempts have failed the
\* call does not give up: it has not thrown, and a wait is only started
\* when another attempt is still allowed.
C7_RetriesUntilSuccess ==
    \A p \in Procs :
        LET r == retry[p] IN
        r.opts.maxRetries >= 1 =>
            /\ r.pc = "returned" =>
                /\ Len(Failures(r)) < r.opts.maxRetries
                /\ Invocations(r) = Len(Failures(r)) + 1
                /\ AllRetryable(r)
                /\ Last(r.log).ev = "resolve"
                /\ r.out = Last(r.log).val
                /\ IsValue(r.out)
            /\ (r.pc = "thrown" /\ AllRetryable(r)) => Len(Failures(r)) >= r.opts.maxRetries
            /\ r.pc = "sleeping" => r.attempt < r.opts.maxRetries
            /\ r.pc = "calling" => Invocations(r) = Len(Failures(r)) + 1

\* C7 witness: two NETWORK_ERROR failures, then success, with maxRetries = 3
\* and retryableErrors = {NETWORK_ERROR}
C7_Witness ==
    /\ retry[1].pc = "returned"
    /\ retry[1].opts.maxRetries = 3
    /\ retry[1].opts.retryableErrors = {"NETWORK_ERROR"}
    /\ Len(Failures(retry[1])) = 2
    /\ Invocations(retry[1]) = 3

\* C8: a failure with a value that has no retryable code ends the call at
\* once: nothing follows it (no observer call, no wait, no attempt) and the
\* call throws that very value.
C8_NonRetryablePropagatesUnchanged ==
    \A p \in Procs :
        LET r == retry[p] IN
        \A i \in 1..Len(r.log) :
            (r.log[i].ev = "fail" /\ NotRetryable(r, r.log[i].val))
            => /\ i = Len(r.log)
               /\ r.pc = "thrown"
               /\ r.out = r.log[i].val

\* C9: for maxRetries >= 1, when every attempt failed with a retryable
\* error the call throws after exactly maxRetries invocations, what it
\* throws is the value the last attempt threw, and nothing (no observer
\* call, no wait) follows that last failure; no wait is ever started after
\* attempt maxRetries.
C9_ExhaustedThrowsLastError ==
    \A p \in Procs :
        LET r == retry[p] IN
        r.opts.maxRetries >= 1 =>
            /\ (r.pc = "thrown" /\ AllRetryable(r)) =>
                /\ Invocations(r) = r.opts.maxRetries
                /\ Len(Failures(r)) = r.opts.maxRetries
                /\ Last(r.log) = Event("fail", r.opts.maxRetries, r.out)
            /\ Invocations(r) <= r.opts.maxRetries
            /\ \A i \in 1..Len(r.log) :
                r.log[i].ev = "sleep" => r.log[i].attempt < r.opts.maxRetries

\* C9 witness: three attempts failed with three different retryable codes
C9_Witness ==
    /\ retry[1].pc = "thrown"
    /\ retry[1].opts.maxRetries = 3
    /\ AllRetryable(retry[1])
    /\ retry[1].out = AppError("API_ERROR", 3)
    /\ Failures(retry[1])[1].val.code = "NETWORK_ERROR"
    /\ Failures(retry[1])[2].val.code = "API_RATE_LIMIT"

Extractors == {1}
ApiCallers == Procs

\* the files extractData is called with
Files ==
    [size : {MAX_FILE_SIZE, MAX_FILE_SIZE + 1, maxSize, maxSize + 1},
     type : {"image/jpeg", "image/gif"}]

\* how the fetch of an attempt can end: it rejects, or the route answers
Fetched(file) ==
    {[kind |-> "rejected", response |-> NoResponse, ai |-> [kind |-> "unreached", of |-> ""]]}
        \cup {[kind |-> "answered", response |-> POST(fileToBase64(file), file.type, ai),
               ai |-> IF validateAndSanitizeImage(fileToBase64(file), file.type).isValid
                      THEN ai ELSE [kind |-> "refused", of |-> ""]] : ai \in AiOutcomes}

\* what an operation handed to resilientApiCall does at attempt n
ApiOutcomes(n) == {Value("a"), AppError("NETWORK_ERROR", n), PlainError(n)}

\* extractData(file) is called
ExtractData(p) ==
    /\ ext[p].pc \in {"idle", "done"}
    /\ ext[p].runs < MaxExtractions
    /\ \E file \in Files : ext' = [ext EXCEPT ![p] = extractDataBegin(ext[p], file)]
    /\ page' = deliver(page, p, newCallbacks(ext[p], ext'[p]))
    /\ actor' = p
    /\ UNCHANGED <<breakerVars, now, retry, errorCase, callVars>>

\* fileToBase64 settles; when it resolves, retryImageAnalysis is called and
\* runs, through retryApiCall and retryWithBackoff, up to its first fetch
FileToBase64Settles(p) ==
    /\ ext[p].pc = "reading"
    /\ \/ /\ ext' = [ext EXCEPT ![p].pc = "analysing"]
          /\ retry' = [retry EXCEPT ![p] = retryBegin(ImageAnalysisOptions)]
       \/ /\ ext' = [ext EXCEPT ![p] = extractDataFails(ext[p], FileReadError)]
          /\ UNCHANGED retry
    /\ page' = deliver(page, p, newCallbacks(ext[p], ext'[p]))
    /\ actor' = p
    /\ UNCHANGED <<breakerVars, now, errorCase, callVars>>

\* the request of the attempt in flight settles (ext[p].ai keeps what the
\* generative model did for it: unreached when the request failed, refused
\* when the route did not accept the image)
FetchSettles(p) ==
    /\ ext[p].pc = "analysing"
    /\ retry[p].pc = "calling"
    /\ \E f \in Fetched(ext[p].file) :
        /\ retry' = [retry EXCEPT ![p] =
                        retryAttemptSettles(retry[p], analysisOperation(f, retry[p].attempt))]
        /\ ext' = [ext EXCEPT ![p].ai = f.ai]
    /\ actor' = p
    /\ UNCHANGED <<breakerVars, now, page, errorCase, callVars>>

\* retryImageAnalysis has settled: extractData resumes
AnalysisSettles(p) ==
    /\ ext[p].pc = "analysing"
    /\ retry[p].pc \in {"returned", "thrown"}
    /\ ext' = [ext EXCEPT ![p] = extractDataSettles(ext[p], retry[p].out)]
    /\ page' = deliver(page, p, newCallbacks(ext[p], ext'[p]))
    /\ actor' = p
    /\ UNCHANGED <<breakerVars, now, retry, errorCase, callVars>>

\* resilientApiCall(operation): apiCircuitBreaker.execute up to the first
\* attempt of retryApiCall(operation), or to the circuit-open throw
ResilientApiCall(p) ==
    /\ calls[p].pc # "awaiting"
    /\ executeCalls < MaxApiCalls
    /\ executeCalls' = executeCalls + 1
    /\ breaker' = executeGate(breaker, now)
    /\ IF executeAdmits(breaker, now)
       THEN /\ calls' = [calls EXCEPT ![p] =
                    [pc |-> "awaiting", invoked |-> 1, entry |-> breaker'.state,
                     opOut |-> None, out |-> None]]
            /\ retry' = [retry EXCEPT ![p] = retryBegin(ApiCallOptions)]
       ELSE /\ calls' = [calls EXCEPT ![p] =
                    [pc |-> "thrown", invoked |-> 0, entry |-> "none",
                     opOut |-> None, out |-> CircuitOpenError]]
            /\ retry' = [retry EXCEPT ![p] = IdleRetry]
    /\ actor' = p
    /\ UNCHANGED <<now, consecutiveFailures, ext, page, errorCase, callVars>>

\* the attempt in flight of a resilientApiCall settles
ApiAttemptSettles(p) ==
    /\ calls[p].pc = "awaiting"
    /\ retry[p].pc = "calling"
    /\ \E outcome \in ApiOutcomes(retry[p].attempt) :
        retry' = [retry EXCEPT ![p] = retryAttemptSettles(retry[p], outcome)]
    /\ actor' = p
    /\ UNCHANGED <<breakerVars, now, ext, page, errorCase, callVars>>

\* retryApiCall has settled: execute() resumes in its try or its catch
ResilientSettles(p) ==
    /\ calls[p].pc = "awaiting"
    /\ retry[p].pc \in {"returned", "thrown"}
    /\ LET r == executeSettles(breaker, now, retry[p].out) IN
        /\ breaker' = r.cb
        /\ calls' = [calls EXCEPT ![p] =
                [@ EXCEPT !.pc = IF IsValue(r.out) THEN "returned" ELSE "thrown",
                          !.opOut = retry[p].out,
                          !.out = r.out]]
    /\ consecutiveFailures' = IF IsValue(retry[p].out) THEN 0 ELSE consecutiveFailures + 1
    /\ actor' = p
    /\ UNCHANGED <<now, executeCalls, retry, ext, page, errorCase, callVars>>

\* time passes, half a recovery timeout at a time
TickApi ==
    /\ now < MaxNow * (ApiRecoveryTimeout \div 2)
    /\ now' = now + (ApiRecoveryTimeout \div 2)
    /\ actor' = 0
    /\ UNCHANGED <<breakerVars, retry, ext, page, errorCase, callVars>>

\* apiCircuitBreaker = new CircuitBreaker(5, 60000)
InitExtract ==
    /\ IdleView
    /\ breaker = CircuitBreaker(ApiFailureThreshold, ApiRecoveryTimeout)
    /\ now = 0
    /\ calls = [p \in Procs |-> IdleCall]
    /\ executeCalls = 0
    /\ consecutiveFailures = 0
    /\ actor = 0
    /\ retry = [p \in Procs |-> IdleRetry]
    /\ ext = [p \in Procs |-> IdleExtraction]
    /\ page = InitialPage
    /\ errorCase = IdleErrorCase
    /\ route = IdleRoute
    /\ calc = IdleCalc
    /\ backoff = IdleBackoff

NextExtract ==
    \/ \E p \in Extractors : ExtractData(p)
    \/ \E p \in Extractors : FileToBase64Settles(p)
    \/ \E p \in Extractors : FetchSettles(p)
    \/ \E p \in Extractors : AnalysisSettles(p)
    \/ \E p \in Extractors : ext[p].pc = "analysing" /\ SleepEnds(p)

\* extraction requests, in a process that holds apiCircuitBreaker
SpecExtract == InitExtract /\ [][NextExtract]_vars

NextResilient ==
    \/ \E p \in ApiCallers : ResilientApiCall(p)
    \/ \E p \in ApiCallers : ApiAttemptSettles(p)
    \/ \E p \in ApiCallers : ResilientSettles(p)
    \/ \E p \in ApiCallers : calls[p].pc = "awaiting" /\ SleepEnds(p)
    \/ TickApi

\* concurrent callers of resilientApiCall
SpecResilient == InitExtract /\ [][NextResilient]_vars

\* isValidTransition(from, to)
validTransitions ==
    [upload |-> {"processing"}, processing |-> {"result", "error"},
     result |-> {"upload"}, error |-> {"upload"}]

isValidTransition(from, to) ==
    IF from \in DOMAIN validTransitions THEN to \in validTransitions[from] ELSE FALSE

(* --------------------------- Home page steps ---------------------------- *)
\* a validateFile with the limit of extractData
validateFileUpTo10(file) ==
    IF file.type \notin SUPPORTED_FORMATS THEN "Formato no soportado"
    ELSE IF file.size > maxSize THEN "La imagen es demasiado grande"
    ELSE "null"

\* validateFile(file) of ImageUploadInterface: the message, or null
validateFile(file) ==
    IF file.type \notin SUPPORTED_FORMATS THEN "Formato no soportado"
    ELSE IF file.size > MAX_FILE_SIZE THEN "La imagen es demasiado grande"
    ELSE "null"

\* handleFileSelect(file) up to `await fileToBase64(file)`, or to its return
\* when validateFile has a message; the upload interface is rendered in the
\* upload view only
HandleFileSelect(p) ==
    /\ page.app.currentView = "upload"
    /\ page.select[p].pc = "idle"
    /\ ext[p].pc \in {"idle", "done"}
    /\ ext[p].runs < MaxExtractions
    /\ \E file \in Files :
        page' = IF validateFile(file) # "null"
                THEN [page EXCEPT !.uploadState.error = validateFile(file),
                                  !.select[p].file = file]
                ELSE [page EXCEPT !.uploadState = [isUploading |-> TRUE, error |-> "null"],
                                  !.select[p] = [pc |-> "reading", file |-> file]]
    /\ actor' = p
    /\ UNCHANGED <<breakerVars, now, retry, ext, errorCase, callVars>>

\* fileToBase64 of handleFileSelect settles: the catch block when it
\* rejects, the validation message when validateAndSanitizeImage refuses
\* the data, and otherwise onImageSelect(file), which is extractData(file)
\* up to its first await
UploadReadSettles(p) ==
    /\ page.select[p].pc = "reading"
    /\ LET file == page.select[p].file
           validation == validateAndSanitizeImage(fileToBase64(file), file.type)
           settled == [page EXCEPT !.select[p].pc = "idle"]
       IN  \/ /\ page' = [settled EXCEPT !.uploadState =
                            [isUploading |-> FALSE,
                             error |-> "Error al procesar la imagen de forma segura"]]
              /\ UNCHANGED ext
           \/ /\ ~validation.isValid
              /\ page' = [settled EXCEPT !.uploadState =
                            [isUploading |-> FALSE, error |-> validation.error]]
              /\ UNCHANGED ext
           \/ /\ validation.isValid
              /\ ext' = [ext EXCEPT ![p] = extractDataBegin(ext[p], file)]
              /\ page' = deliver(settled, p, newCallbacks(ext[p], ext'[p]))
    /\ actor' = p
    /\ UNCHANGED <<breakerVars, now, retry, errorCase, callVars>>

\* the first timer of handleExtractionComplete fires
Timer400(p) ==
    /\ page.pipe[p].pc = "t400"
    /\ page' = [page EXCEPT
            !.app = updateProcessingStep(updateProcessingStep(@, 2, "completed"),
                                         3, "processing"),
            !.pipe[p].pc = "t600"]
    /\ actor' = p
    /\ UNCHANGED <<breakerVars, now, retry, ext, errorCase, callVars>>

\* the second timer fires: normalize(data.weight), in its try block
Timer600(p) ==
    /\ page.pipe[p].pc = "t600"
    /\ \E normalizedWeight \in {normalizedSamples[page.pipe[p].data]} :
        page' =
            IF normalizedWeight.thrown
            THEN handleExtractionError(
                    [page EXCEPT !.app = updateProcessingStep(@, 3, "error"),
                                 !.pipe[p].pc = "none"],
                    normalizedWeight.val)
            ELSE [page EXCEPT
                    !.app = updateProcessingStep(updateProcessingStep(@, 3, "completed"),
                                                 4, "processing"),
                    !.pipe[p].pc = "t800",
                    !.pipe[p].normalizedWeight = normalizedWeight.val]
    /\ actor' = p
    /\ UNCHANGED <<breakerVars, now, retry, ext, errorCase, callVars>>

\* the third timer fires: calculate(data.price, normalizedWeight), in its try
\* block; normalizedWeight is what the second timer kept for the same data
Timer800(p) ==
    /\ page.pipe[p].pc = "t800"
    /\ \E unitPriceResult \in {calculatedSamples[page.pipe[p].data]} :
        page' =
            IF unitPriceResult.thrown
            THEN handleExtractionError(
                    [page EXCEPT !.app = updateProcessingStep(@, 4, "error"),
                                 !.pipe[p].pc = "none"],
                    unitPriceResult.val)
            ELSE [page EXCEPT
                    !.app = updateProcessingStep(@, 4, "completed"),
                    !.pipe[p].pc = "t500",
                    !.pipe[p].result = unitPriceResult.val]
    /\ actor' = p
    /\ UNCHANGED <<breakerVars, now, retry, ext, errorCase, callVars>>

\* the last timer fires: the result is published
Timer500(p) ==
    /\ page.pipe[p].pc = "t500"
    /\ page' = [page EXCEPT
            !.app = navigationReducer(@, [type |-> "COMPLETE_PROCESSING",
                                          result |-> page.pipe[p].result]),
            !.pipe[p].pc = "none"]
    /\ actor' = p
    /\ UNCHANGED <<breakerVars, now, retry, ext, errorCase, callVars>>

\* handleReset(), from the result card; the upload interface is mounted anew
HandleReset ==
    /\ page.app.currentView = "result"
    /\ page.app.result # None
    /\ page.extractedData # "null"
    /\ page' = [page EXCEPT !.app = navigationReducer(@, [type |-> "RESET"]),
                            !.extractedData = "null",
                            !.uploadState = InitialPage.uploadState]
    /\ actor' = 0
    /\ UNCHANGED <<breakerVars, now, retry, ext, errorCase, callVars>>

\* handleRetry(), from the error view; the upload interface is mounted anew
HandleRetry ==
    /\ page.app.currentView = "error"
    /\ page.app.error # None
    /\ page' = [page EXCEPT !.app = navigationReducer(@, [type |-> "RETRY"]),
                            !.extractedData = "null",
                            !.uploadState = InitialPage.uploadState]
    /\ actor' = 0
    /\ UNCHANGED <<breakerVars, now, retry, ext, errorCase, callVars>>

NextPage ==
    \/ \E p \in Extractors : HandleFileSelect(p)
    \/ \E p \in Extractors : UploadReadSettles(p)
    \/ \E p \in Extractors : FileToBase64Settles(p)
    \/ \E p \in Extractors : FetchSettles(p)
    \/ \E p \in Extractors : AnalysisSettles(p)
    \/ \E p \in Extractors : ext[p].pc = "analysing" /\ SleepEnds(p)
    \/ \E p \in Extractors : Timer400(p)
    \/ \E p \in Extractors : Timer600(p)
    \/ \E p \in Extractors : Timer800(p)
    \/ \E p \in Extractors : Timer500(p)
    \/ HandleReset
    \/ HandleRetry

\* the Home page: files chosen in the upload interface, extracted and priced
SpecPage == InitExtract /\ [][NextPage]_vars

\* the Home page when every promise awaited settles (the file read, the
\* request of each attempt, retryImageAnalysis) and every timer set fires
\* (the backoff sleep, the four timers of handleExtractionComplete); the user
\* need not do anything
FairPage ==
    /\ SpecPage
    /\ \A p \in Extractors :
        /\ WF_vars(UploadReadSettles(p))
        /\ WF_vars(FileToBase64Settles(p))
        /\ WF_vars(FetchSettles(p))
        /\ WF_vars(AnalysisSettles(p))
        /\ WF_vars(ext[p].pc = "analysing" /\ SleepEnds(p))
        /\ WF_vars(Timer400(p))
        /\ WF_vars(Timer600(p))
        /\ WF_vars(Timer800(p))
        /\ WF_vars(Timer500(p))

\* the files chosen in the upload view before it is left: a second file can
\* be dropped while handleFileSelect awaits the read of the first, since the
\* drop zone and the file input stay active (isProcessing is isExtracting,
\* which is set by extractData only); each selection after the first is
\* made while the ones before it are read
MaxSelections == 1
\* attempts of each overlapping extraction whose request is followed
MaxOverlapAttempts == 1

NextSelections ==
    \/ \E p \in Procs :
            /\ ext[p].runs < MaxSelections
            /\ \A q \in 1..(p - 1) : page.select[q].pc = "reading"
            /\ HandleFileSelect(p)
    \/ \E p \in Procs : UploadReadSettles(p)
    \/ \E p \in Procs : FileToBase64Settles(p)
    \/ \E p \in Procs : retry[p].attempt <= MaxOverlapAttempts /\ FetchSettles(p)
    \/ \E p \in Procs : AnalysisSettles(p)
    \/ \E p \in Procs : ext[p].pc = "analysing" /\ SleepEnds(p)
    \/ \E p \in Procs : Timer400(p)
    \/ \E p \in Procs : Timer600(p)
    \/ \E p \in Procs : Timer800(p)
    \/ \E p \in Procs : Timer500(p)
    \/ HandleReset
    \/ HandleRetry

\* the Home page with overlapping file selections
SpecSelections == InitExtract /\ [][NextSelections]_vars

(* ---------------------------- reducer steps --------------------------- *)
\* actions dispatched to the reducer over one behaviour
MaxDispatched == 12

\* the actions a dispatch can carry, the n-th dispatch naming its result n
DispatchedActions(n) ==
    {[type |-> t, stepIndex |-> 1, status |-> "completed",
      result |-> [tag |-> n], error |-> PlainError(0)] :
        t \in {"START_PROCESSING", "UPDATE_PROCESSING_STEP", "COMPLETE_PROCESSING",
               "SHOW_ERROR", "RESET", "RETRY", "UNKNOWN"}}

\* dispatch(action)
Dispatch ==
    /\ nav.dispatched < MaxDispatched
    /\ \E action \in DispatchedActions(nav.dispatched + 1) :
        nav' = [state |-> navigationReducer(nav.state, action),
                completed |-> IF action.type = "COMPLETE_PROCESSING"
                              THEN <<action.result>> \o nav.completed
                              ELSE nav.completed,
                dispatched |-> nav.dispatched + 1]
    /\ UNCHANGED <<breakerVars, now, actor, retry, ext, page, errorCase, route, calc, backoff,
                   display, secure, component>>

\* the reducer under any sequence of actions
SpecReducer == InitExtract /\ [][Dispatch]_vars

(* ------------------------ SecureImageProcessor steps -------------------- *)
\* processImage calls made over one behaviour
MaxProcessCalls == 3

\* the image data processImage is called with: with and without the data
\* URL prefix, empty, small, at the size limit and over it
ImageInputs == [prefix : BOOLEAN, bytes : {0, 1, MAX_IMAGE_SIZE, MAX_IMAGE_SIZE + 1}]

\* validation.sanitizedData: the base64 part of the data, without the prefix
sanitizedData(imageData) == [prefix |-> FALSE, bytes |-> imageData.bytes]

\* the truth value of a string or null: only null and '' are falsy
truthy(data) == data # NoData /\ (data.prefix \/ data.bytes > 0)

\* cleanup(): the field after it
cleanup(imageData) == IF truthy(imageData) THEN NoData ELSE imageData

\* processImage(imageData, mimeType, processor) up to `await processor(...)`,
\* or to its throw when the validation fails (finally: cleanup)
ProcessImage(c) ==
    /\ secure.call[c].pc # "processing"
    /\ secure.made < MaxProcessCalls
    /\ \E imageData \in ImageInputs, mimeType \in {"image/jpeg", "image/gif"} :
        secure' =
            IF ~validateAndSanitizeImage(imageData, mimeType).isValid
            THEN [secure EXCEPT
                    !.imageData = cleanup(@),
                    !.call[c] = [pc |-> "rejected", imageData |-> imageData,
                                 mimeType |-> mimeType, invoked |-> 0, given |-> NoData],
                    !.made = @ + 1]
            ELSE [secure EXCEPT
                    !.imageData = sanitizedData(imageData),
                    !.call[c] = [pc |-> "processing", imageData |-> imageData,
                                 mimeType |-> mimeType, invoked |-> 1,
                                 given |-> sanitizedData(imageData)],
                    !.made = @ + 1]
    /\ UNCHANGED <<breakerVars, now, actor, retry, ext, page, errorCase, route, calc, backoff,
                   display, nav, component>>

\* the processor callback settles: processImage returns its result or
\* throws its error (finally: cleanup)
ProcessorSettles(c) ==
    /\ secure.call[c].pc = "processing"
    /\ \E pc \in {"resolved", "rejected"} :
        secure' = [secure EXCEPT !.imageData = cleanup(@), !.call[c].pc = pc]
    /\ UNCHANGED <<breakerVars, now, actor, retry, ext, page, errorCase, route, calc, backoff,
                   display, nav, component>>

NextSecure ==
    \/ \E c \in Procs : ProcessImage(c)
    \/ \E c \in Procs : ProcessorSettles(c)

\* processImage calls on one SecureImageProcessor
SpecSecure == InitExtract /\ [][NextSecure]_vars

(* -------------------------- DataExtractor steps ------------------------- *)
\* renders of the DataExtractor component over one behaviour
MaxRenders == 5

\* the file props the component is rendered with: null, a file extractData
\* accepts and one it rejects for its size
FileProps ==
    {NoFile, [size |-> MAX_FILE_SIZE, type |-> "image/jpeg"],
     [size |-> maxSize + 1, type |-> "image/jpeg"]}

\* DataExtractor(props): one render of the component, with the file prop it
\* had or another one; `if (file && !isExtracting && !error) extractData(file)`
\* runs extractData up to its first await
RenderDataExtractor(p) ==
    /\ component.renders < MaxRenders
    /\ ext[p].runs < MaxExtractions
    /\ \E file \in FileProps :
        \E starts \in {file # NoFile /\ ~ext[p].isExtracting /\ ext[p].error = None} :
            /\ component' = [file |-> file,
                             renders |-> component.renders + 1,
                             started |-> (IF file = component.file THEN component.started
                                          ELSE 0) + (IF starts THEN 1 ELSE 0)]
            /\ ext' = IF starts THEN [ext EXCEPT ![p] = extractDataBegin(ext[p], file)]
                      ELSE ext
    /\ page' = deliver(page, p, newCallbacks(ext[p], ext'[p]))
    /\ actor' = p
    /\ UNCHANGED <<breakerVars, now, retry, errorCase, route, calc, backoff, display, nav,
                   secure>>

NextComponent ==
    \/ \E p \in Extractors : RenderDataExtractor(p)
    \/ \E p \in Extractors : FileToBase64Settles(p)
    \/ \E p \in Extractors : FetchSettles(p)
    \/ \E p \in Extractors : AnalysisSettles(p)
    \/ \E p \in Extractors : ext[p].pc = "analysing" /\ SleepEnds(p)

\* a DataExtractor component, rendered again whenever its parent or its own
\* state asks for it
SpecComponent == InitExtract /\ [][NextComponent]_vars

(* -------------------------- errorHandling steps ------------------------- *)
\* the arguments createAppError is called with
MessageArguments == {Absent, Some(""), Some("Missing image data or type")}
SuggestionArguments == {Absent, Some(<<>>), Some(<<"Refresh the page and try again">>)}
\* the strategies isRetryableError is called with: the default, and another
RetryStrategies ==
    {API_RETRY_STRATEGY, [maxRetries |-> 1, retryableErrors |-> {"NETWORK_ERROR"}]}

\* createAppError(code, originalMessage, customSuggestions) is called
CreateAppError ==
    /\ errorCase.stage = "arguments"
    /\ errorCase' = [errorCase EXCEPT
            !.stage = "created",
            !.error = createAppError(errorCase.code, errorCase.originalMessage,
                                     errorCase.customSuggestions)]
    /\ actor' = 0
    /\ UNCHANGED <<breakerVars, now, retry, ext, page, callVars>>

\* isRetryableError(error, strategy) and isRecoverableError(error) are called
\* with the error made
ClassifyError ==
    /\ errorCase.stage = "created"
    /\ errorCase' = [errorCase EXCEPT
            !.stage = "classified",
            !.retryable = isRetryableError(errorCase.error, errorCase.strategy),
            !.recoverable = isRecoverableError(errorCase.error)]
    /\ actor' = 0
    /\ UNCHANGED <<breakerVars, now, retry, ext, page, callVars>>

InitErrors ==
    /\ IdleView
    /\ breaker = CircuitBreaker(ApiFailureThreshold, ApiRecoveryTimeout)
    /\ now = 0
    /\ calls = [p \in Procs |-> IdleCall]
    /\ executeCalls = 0
    /\ consecutiveFailures = 0
    /\ actor = 0
    /\ retry = [p \in Procs |-> IdleRetry]
    /\ ext = [p \in Procs |-> IdleExtraction]
    /\ page = InitialPage
    /\ route = IdleRoute
    /\ calc = IdleCalc
    /\ backoff = IdleBackoff
    /\ \E code \in ErrorCode, message \in MessageArguments,
          suggestions \in SuggestionArguments, strategy \in RetryStrategies :
            errorCase = [IdleErrorCase EXCEPT !.code = code,
                                              !.originalMessage = message,
                                              !.customSuggestions = suggestions,
                                              !.strategy = strategy]

NextErrors == CreateAppError \/ ClassifyError

\* calls of the errorHandling functions
SpecErrors == InitErrors /\ [][NextErrors]_vars

(* ---------------- WeightNormalizer, UnitPriceCalculator steps ----------- *)
\* the values of the prices and of the weights given to the functions
PriceValues ==
    {double(Num(0 - 1, 0)), double(Num(0, 0)), double(Num(4, 0 - 3)), double(Num(29, 0 - 2)),
     double(Num(250, 0 - 2)), double(Num(333, 0 - 2)), double(Num(23, 0))}
WeightValues ==
    {double(Num(0 - 100, 0)), double(Num(0, 0)), Literal1e322,
     double(Num(5, 0 - 1)), double(Num(1, 0)), double(Num(15, 0 - 1)), double(Num(40, 0)),
     double(Num(500, 0)), double(Num(40000, 0))}
WeightUnits == {"g", "kg", "ml", "l", "oz"}

\* WeightNormalizer.normalize(data.weight) is called
Normalize ==
    /\ calc.stage = "arguments"
    /\ calc' = [calc EXCEPT !.stage = "normalized", !.normalized = normalize(calc.data.weight)]
    /\ actor' = 0
    /\ UNCHANGED <<breakerVars, now, retry, ext, page, errorCase, route, backoff, viewVars>>

\* UnitPriceCalculator.calculate(data.price, normalizedWeight) is called with
\* the weight normalize returned
Calculate ==
    /\ calc.stage = "normalized"
    /\ ~calc.normalized.thrown
    /\ calc' = [calc EXCEPT !.stage = "calculated",
                            !.given = calc.normalized.val,
                            !.result = calculate(calc.data.price, calc.normalized.val)]
    /\ actor' = 0
    /\ UNCHANGED <<breakerVars, now, retry, ext, page, errorCase, route, backoff, viewVars>>

\* UnitPriceCalculator.calculate(price, weight) is called with a
\* NormalizedWeight object the caller made itself
CalculateGiven ==
    /\ calc.stage = "arguments"
    /\ calc.data.weight.unit \in {"kg", "l"}
    /\ LET weight == [value |-> calc.data.weight.value, unit |-> calc.data.weight.unit,
                      originalValue |-> calc.data.weight.value,
                      originalUnit |-> calc.data.weight.unit]
       IN  calc' = [calc EXCEPT !.stage = "calculated", !.given = weight,
                                !.result = calculate(calc.data.price, weight)]
    /\ actor' = 0
    /\ UNCHANGED <<breakerVars, now, retry, ext, page, errorCase, route, backoff, viewVars>>

\* UnitPriceCalculator.calculatePriceDifference(price1, result) is called with
\* a result of calculate as the price compared with
CalculatePriceDifference ==
    /\ calc.stage = "calculated"
    /\ ~calc.result.thrown
    /\ \E value \in {v \in PriceValues : ~leqZero(v)} :
        LET price1 == [calc.result.val EXCEPT !.pricePerUnit = value]
        IN  calc' = [calc EXCEPT !.stage = "compared",
                                 !.difference = calculatePriceDifference(price1, calc.result.val)]
    /\ actor' = 0
    /\ UNCHANGED <<breakerVars, now, retry, ext, page, errorCase, route, backoff, viewVars>>

InitCalc ==
    /\ IdleView
    /\ breaker = CircuitBreaker(ApiFailureThreshold, ApiRecoveryTimeout)
    /\ now = 0
    /\ calls = [p \in Procs |-> IdleCall]
    /\ executeCalls = 0
    /\ consecutiveFailures = 0
    /\ actor = 0
    /\ retry = [p \in Procs |-> IdleRetry]
    /\ ext = [p \in Procs |-> IdleExtraction]
    /\ page = InitialPage
    /\ errorCase = IdleErrorCase
    /\ route = IdleRoute
    /\ backoff = IdleBackoff
    /\ \E price \in PriceValues, weight \in WeightValues, unit \in WeightUnits :
            calc = [IdleCalc EXCEPT !.stage = "arguments",
                                    !.data.price.value = price,
                                    !.data.weight.value = weight,
                                    !.data.weight.unit = unit]

NextCalc == Normalize \/ Calculate \/ CalculateGiven \/ CalculatePriceDifference

\* calls of normalize, calculate and calculatePriceDifference
SpecCalc == InitCalc /\ [][NextCalc]_vars

(* ------------------------------ display steps -------------------------- *)
\* the prices, of at most two decimals, the currencies and the locales the
\* formatting functions are called with
DisplayedPrices ==
    {double(Num(n, 0 - 2)) : n \in {0, 57, 350, 500, 1299, 99999, 1234567}}
Currencies == {EUR, USD, GBP, JPY, <<"X", "Y", "Z">>, <<"C", "H", "F">>, <<>>}
Locales == {"es-ES", "en-US", "no locale"}

\* UnitPriceCalculator.formatPrice(result.pricePerUnit, result.currency, locale)
FormatPrice ==
    /\ display.stage = "arguments"
    /\ display' = [display EXCEPT
            !.stage = "price",
            !.formattedValue = formatValue(display.result.pricePerUnit, display.locale),
            !.text = formatPrice(display.result.pricePerUnit, display.result.currency,
                                 display.locale)]
    /\ UNCHANGED <<breakerVars, now, actor, retry, ext, page, errorCase, route, calc, backoff,
                   uiVars>>

\* UnitPriceCalculator.formatUnitPrice(result, locale)
FormatUnitPrice ==
    /\ display.stage = "arguments"
    /\ display' = [display EXCEPT
            !.stage = "unitPrice",
            !.formattedValue = formatValue(display.result.pricePerUnit, display.locale),
            !.text = formatUnitPrice(display.result, display.locale)]
    /\ UNCHANGED <<breakerVars, now, actor, retry, ext, page, errorCase, route, calc, backoff,
                   uiVars>>

InitDisplay ==
    /\ breaker = CircuitBreaker(ApiFailureThreshold, ApiRecoveryTimeout)
    /\ now = 0
    /\ calls = [p \in Procs |-> IdleCall]
    /\ executeCalls = 0
    /\ consecutiveFailures = 0
    /\ actor = 0
    /\ retry = [p \in Procs |-> IdleRetry]
    /\ ext = [p \in Procs |-> IdleExtraction]
    /\ page = InitialPage
    /\ errorCase = IdleErrorCase
    /\ route = IdleRoute
    /\ calc = IdleCalc
    /\ backoff = IdleBackoff
    /\ IdleUi
    /\ \E price \in DisplayedPrices, currency \in Currencies, unit \in {"kg", "l"},
          locale \in Locales :
            display = [IdleDisplay EXCEPT
                        !.stage = "arguments",
                        !.result = [pricePerUnit |-> price, currency |-> currency,
                                    unit |-> unit],
                        !.locale = locale]

NextDisplay == FormatPrice \/ FormatUnitPrice

\* calls of formatPrice and formatUnitPrice
SpecDisplay == InitDisplay /\ [][NextDisplay]_vars

(* ----------------------------- backoff steps ---------------------------- *)
\* the delays retryWithBackoff is called with: not given, 0, and more
DelayOptions ==
    [baseDelay : {Absent, Some(Zero), Some(double(Num(100, 0))), Some(double(Num(1000, 0))),
                  Some(double(Num(50000, 0)))},
     maxDelay : {Absent, Some(Zero), Some(double(Num(5000, 0)))},
     backoffMultiplier : {Absent, Some(Zero), Some(double(Num(5, 0 - 1))),
                          Some(double(Num(1, 0))), Some(double(Num(2, 0)))}]

\* the largest double below 1
BelowOne == [neg |-> FALSE, m |-> sub(shl(<<1>>, Precision), <<1>>), e |-> 0 - Precision]

\* what Math.random() returns: a double in [0, 1)
RandomValues == {Zero, double(Num(5, 0 - 1)), BelowOne}

\* backoff.stage: idle | calling (the attempt is in flight) | sleeping
\* an attempt that is not the last fails with an error that is retried: the
\* delay is computed and the wait starts
AttemptFails ==
    /\ backoff.stage = "calling"
    /\ backoff.attempt < MaxAttempts
    /\ \E random \in RandomValues :
        LET d == backoffDelay(backoff.options, backoff.attempt, random)
        IN  backoff' = [backoff EXCEPT !.stage = "sleeping", !.random = random,
                                       !.previous = backoff.delay,
                                       !.delay = d.delay,
                                       !.delayWithJitter = d.delayWithJitter]
    /\ UNCHANGED <<breakerVars, now, actor, retry, ext, page, errorCase, route, calc, viewVars>>

\* the wait is over: the next attempt
WaitEnds ==
    /\ backoff.stage = "sleeping"
    /\ backoff' = [backoff EXCEPT !.stage = "calling", !.attempt = backoff.attempt + 1]
    /\ UNCHANGED <<breakerVars, now, actor, retry, ext, page, errorCase, route, calc, viewVars>>

InitBackoff ==
    /\ IdleView
    /\ breaker = CircuitBreaker(1, 1)
    /\ now = 0
    /\ calls = [p \in Procs |-> IdleCall]
    /\ executeCalls = 0
    /\ consecutiveFailures = 0
    /\ actor = 0
    /\ retry = [p \in Procs |-> IdleRetry]
    /\ ext = [p \in Procs |-> IdleExtraction]
    /\ page = InitialPage
    /\ errorCase = IdleErrorCase
    /\ route = IdleRoute
    /\ calc = IdleCalc
    /\ \E options \in DelayOptions : backoff = [IdleBackoff EXCEPT !.stage = "calling", !.options = options]

NextBackoff == AttemptFails \/ WaitEnds

\* the waits of one retryWithBackoff call whose attempts all fail
SpecBackoff == InitBackoff /\ [][NextBackoff]_vars

(* ------------------------- the analyze route steps --------------------- *)
\* the bodies of the requests: the image of a file and its type, or no type
RequestBodies ==
    {[image |-> fileToBase64(f), imageType |-> f.type] : f \in Files}
        \cup {[image |-> fileToBase64(f), imageType |-> ""] : f \in Files}

\* POST(request) answers; ai is what the generative model does if it is
\* called (it is called for an image that passes the validation)
HandlePOST ==
    /\ route.stage = "received"
    /\ route' = [route EXCEPT !.stage = "responded",
                              !.response = POST(route.image, route.imageType, route.ai)]
    /\ actor' = 0
    /\ UNCHANGED <<breakerVars, now, retry, ext, page, errorCase, calc, backoff, viewVars>>

InitRoute ==
    /\ IdleView
    /\ breaker = CircuitBreaker(ApiFailureThreshold, ApiRecoveryTimeout)
    /\ now = 0
    /\ calls = [p \in Procs |-> IdleCall]
    /\ executeCalls = 0
    /\ consecutiveFailures = 0
    /\ actor = 0
    /\ retry = [p \in Procs |-> IdleRetry]
    /\ ext = [p \in Procs |-> IdleExtraction]
    /\ page = InitialPage
    /\ errorCase = IdleErrorCase
    /\ calc = IdleCalc
    /\ backoff = IdleBackoff
    /\ \E body \in RequestBodies, ai \in AiOutcomes :
            route = [IdleRoute EXCEPT !.image = body.image, !.imageType = body.imageType,
                                      !.ai = ai, !.stage = "received"]

NextRoute == HandlePOST

\* requests to the analyze route
SpecRoute == InitRoute /\ [][NextRoute]_vars

(* ------------------------- extractData: claims ------------------------- *)
\* the step in which the extraction of caller p issues an external request
ExtractionRequestStep(p) ==
    /\ ext'[p].pc = "analysing"
    /\ actor' = p
    /\ Invocations(retry'[p]) = (IF ext[p].pc = "reading" THEN 0 ELSE Invocations(retry[p])) + 1
\* the step in which extractData learns how its external call ended
ExtractionSettleStep(p) == ext[p].pc = "analysing" /\ ext'[p].pc = "done"

\* C6: the external call of an extraction goes through the shared breaker:
\* no extraction issues an external request while the breaker is OPEN and
\* recoveryTimeout has not elapsed, and when the external call of an
\* extraction ends the breaker records it as execute() does (failures + 1
\* and lastFailureTime on failure, failures = 0 and CLOSED on success).
C6_ExtractionGoesThroughBreaker ==
    [][\A p \in Extractors :
         /\ ExtractionRequestStep(p) => ~OpenAndCooling(breaker, now)
         /\ ExtractionSettleStep(p)
              => breaker' = executeSettles(breaker, now, retry[p].out).cb]_vars

(* ------------------------- error policy: claims ------------------------ *)
\* the failures recorded for the extraction of caller p
AnalysisLog(p) == retry[p].log

\* C11: within one extraction request, a failure of the external call with
\* code API_ERROR is surfaced at once: nothing (no observer call, no wait,
\* no further attempt) follows it and the call has thrown; a failure with
\* NETWORK_ERROR or API_RATE_LIMIT at an attempt before the last is
\* followed by another attempt.
C11_ApiErrorSurfacedAtOnce ==
    \A p \in Extractors :
        \A i \in 1..Len(AnalysisLog(p)) :
            LET e == AnalysisLog(p)[i] IN
            /\ (e.ev = "fail" /\ e.val.code = "API_ERROR")
                => i = Len(AnalysisLog(p)) /\ retry[p].pc = "thrown"
            /\ (e.ev = "fail" /\ e.val.code \in {"NETWORK_ERROR", "API_RATE_LIMIT"}
                    /\ e.attempt < ImageAnalysisOptions.maxRetries)
                => i < Len(AnalysisLog(p)) /\ AnalysisLog(p)[i + 1].ev = "onRetry"

\* C12: with the default strategy, isRetryableError is true exactly for
\* NETWORK_ERROR, API_RATE_LIMIT and API_ERROR, for each of the 8 codes and
\* whatever message and suggestions the error was made with; the default
\* retry options, retryApiCall and the extraction use that same set.
C12_CanonicalRetryPolicy ==
    /\ (errorCase.stage = "classified" /\ errorCase.strategy = API_RETRY_STRATEGY)
        => (errorCase.retryable
                <=> errorCase.code \in {"NETWORK_ERROR", "API_RATE_LIMIT", "API_ERROR"})
    /\ API_RETRY_STRATEGY.retryableErrors = {"NETWORK_ERROR", "API_RATE_LIMIT", "API_ERROR"}
    /\ DEFAULT_RETRY_OPTIONS.retryableErrors = API_RETRY_STRATEGY.retryableErrors
    /\ ApiRetryableErrors = API_RETRY_STRATEGY.retryableErrors
    /\ ApiCallOptions.retryableErrors = API_RETRY_STRATEGY.retryableErrors
    /\ ImageAnalysisOptions.retryableErrors = API_RETRY_STRATEGY.retryableErrors

\* C12 witness: an API_ERROR made with a message of the caller was found
\* retryable under the default strategy
C12_Witness ==
    /\ errorCase.stage = "classified"
    /\ errorCase.strategy = API_RETRY_STRATEGY
    /\ errorCase.code = "API_ERROR"
    /\ errorCase.originalMessage # Absent
    /\ errorCase.retryable

\* the errors handed to onExtractionError by the extraction of caller p
ErrorsDelivered(p) ==
    {ext[p].callbacks[i].val : i \in {j \in 1..Len(ext[p].callbacks) :
                                        ext[p].callbacks[j].cb = "onExtractionError"}}

\* C13: every AppError made by createAppError, and every AppError handed to
\* onExtractionError, has recoverable = FALSE exactly when the category of
\* its code is critical_error, that is for API_ERROR alone.
C13_RecoverableFollowsCategory ==
    /\ errorCase.stage # "arguments"
        => (errorCase.error.recoverable <=> errorCase.code # "API_ERROR")
    /\ \A p \in Extractors :
        \A e \in ErrorsDelivered(p) :
            e.kind = "AppError"
            => /\ e.recoverable <=> ERROR_CATEGORIES[e.code] # "critical_error"
               /\ e.recoverable <=> e.code # "API_ERROR"

\* C14: createAppError(code, message, suggestions) has the code, the
\* userMessage (the static message of the code) and the recoverable of
\* createAppError(code), whatever message and suggestions are supplied; a
\* supplied message (not empty) is its message and supplied suggestions are
\* its suggestions, and what is not supplied is that of createAppError(code).
C14_OverridesOnlyMessageAndSuggestions ==
    errorCase.stage # "arguments" =>
        LET made == errorCase.error
            plain == createAppError(errorCase.code, Absent, Absent)
        IN  /\ made.code = errorCase.code
            /\ made.userMessage = ERROR_MESSAGES[errorCase.code].message
            /\ made.userMessage = plain.userMessage
            /\ made.recoverable = plain.recoverable
            /\ made.recoverable = (ERROR_CATEGORIES[errorCase.code] # "critical_error")
            /\ made.message = IF errorCase.originalMessage \in {Absent, Some("")}
                              THEN ERROR_MESSAGES[errorCase.code].message
                              ELSE errorCase.originalMessage[1]
            /\ made.suggestions = IF errorCase.customSuggestions = Absent
                                  THEN ERROR_MESSAGES[errorCase.code].suggestions
                                  ELSE errorCase.customSuggestions[1]
            /\ DOMAIN made = DOMAIN plain

\* C14 witness: an API_ERROR was made with a message and with suggestions of
\* the caller
C14_Witness ==
    /\ errorCase.stage = "created"
    /\ errorCase.code = "API_ERROR"
    /\ errorCase.originalMessage = Some("Missing image data or type")
    /\ errorCase.customSuggestions = Some(<<"Refresh the page and try again">>)
    /\ errorCase.error.message = "Missing image data or type"
    /\ errorCase.error.suggestions = <<"Refresh the page and try again">>
    /\ ~errorCase.error.recoverable

(* ---------------------- extraction and page: claims -------------------- *)
\* an error that tells the user what happened and what to do
Guided(e) ==
    /\ e.kind = "AppError"
    /\ "suggestions" \in DOMAIN e /\ e.suggestions # <<>>
    /\ "userMessage" \in DOMAIN e /\ e.userMessage \notin {"", "undefined"}

\* C15: every error handed to onExtractionError, and every error stored as
\* AppState.error, is an AppError with a user message and a list of
\* suggestions that is not empty, on every failure path.
C15_SurfacedErrorsAreGuided ==
    /\ \A p \in Extractors : \A e \in ErrorsDelivered(p) : Guided(e)
    /\ page.app.error # None => Guided(page.app.error)

\* the step in which caller p calls extractData
ExtractDataStep(p) == ext'[p].runs = ext[p].runs + 1

\* C16: an extractData call with a file larger than 10 MiB ends at once with
\* IMAGE_TOO_LARGE, and one with a file of at most 10 MiB whose type is not
\* image/jpeg, image/png or image/webp ends at once with
\* INVALID_IMAGE_FORMAT: the error is set and handed to onExtractionError
\* right after onExtractionStart, no request is issued, and
\* onExtractionComplete is not called; any other file goes on to be read.
\* Only files that pass both checks are ever read or analysed.
C16_PreCallValidation ==
    /\ [](\A p \in Extractors :
            ext[p].pc \in {"reading", "analysing"}
            => /\ ext[p].file.size <= 10 * 1024 * 1024
               /\ ext[p].file.type \in {"image/jpeg", "image/png", "image/webp"})
    /\ [][\A p \in Extractors :
            ExtractDataStep(p) =>
                LET file == ext'[p].file
                    code == IF file.size > 10 * 1024 * 1024 THEN "IMAGE_TOO_LARGE"
                            ELSE IF file.type \notin {"image/jpeg", "image/png", "image/webp"}
                            THEN "INVALID_IMAGE_FORMAT"
                            ELSE "ok"
                IN  IF code = "ok"
                    THEN /\ ext'[p].pc = "reading"
                         /\ ext'[p].callbacks = <<[cb |-> "onExtractionStart", val |-> None]>>
                    ELSE /\ ext'[p].pc = "done"
                         /\ ~ext'[p].isExtracting
                         /\ ext'[p].error.kind = "AppError"
                         /\ ext'[p].error.code = code
                         /\ ext'[p].callbacks =
                                <<[cb |-> "onExtractionStart", val |-> None],
                                  [cb |-> "onExtractionError", val |-> ext'[p].error]>>
                         /\ retry' = retry]_vars

\* C16 witness: a GIF of 10 MiB + 1 byte was rejected for its size, after a
\* GIF of 10 MiB had been rejected for its format
C16_Witness ==
    /\ ext[1].runs = 2
    /\ ext[1].pc = "done"
    /\ ext[1].file = [size |-> maxSize + 1, type |-> "image/gif"]
    /\ ext[1].error.code = "IMAGE_TOO_LARGE"
    /\ Len(ext[1].callbacks) = 2
    /\ retry[1] = IdleRetry

\* the step in which handleFileSelect of caller p looks at a file
FileSelectStep(p) ==
    /\ page.select[p].pc = "idle"
    /\ page.app.currentView = "upload"
    /\ actor' = p
    /\ page' # page

\* the file passes the check of the upload interface
Uploadable(file) ==
    /\ file.type \in {"image/jpeg", "image/png", "image/webp"}
    /\ file.size <= 5 * 1024 * 1024

\* C17: the upload interface hands a file to onImageSelect (which calls
\* extractData) only if its type is supported and its size is at most
\* 5 MiB: such a file goes on to be read with no error shown, and for any
\* other file an upload error is shown, nothing is read and extractData is
\* not called.
C17_UploadCheck ==
    /\ [](\A p \in Extractors :
            /\ page.select[p].pc = "reading" => Uploadable(page.select[p].file)
            /\ ext[p].runs > 0 => Uploadable(ext[p].file))
    /\ [][\A p \in Extractors :
            FileSelectStep(p) =>
                /\ ext' = ext
                /\ IF Uploadable(page'.select[p].file)
                   THEN /\ page'.select[p].pc = "reading"
                        /\ page'.uploadState.error = "null"
                   ELSE /\ page'.select[p].pc = "idle"
                        /\ page'.uploadState.error # "null"]_vars

\* C17 witness: after a file of 5 MiB was handed over and extracted, a JPEG
\* of 5 MiB + 1 byte was refused with the size message
C17_Witness ==
    /\ ext[1].runs = 1
    /\ ext[1].file = [size |-> MAX_FILE_SIZE, type |-> "image/jpeg"]
    /\ page.select[1] = [pc |-> "idle",
                         file |-> [size |-> MAX_FILE_SIZE + 1, type |-> "image/jpeg"]]
    /\ page.uploadState.error = "La imagen es demasiado grande"

\* C18: validation failures are not retried.  When a pre-call check refuses
\* the file no request is issued and that error is surfaced; when the
\* route refuses the image, the request is issued at most once and what is
\* surfaced is IMAGE_TOO_LARGE or INVALID_IMAGE_FORMAT; when the extracted
\* fields fail validateExtractedData, that error is surfaced and no request
\* follows the answer.
C18_ValidationNeverRetried ==
    \A p \in Extractors :
        LET x == ext[p] IN
        /\ (x.pc = "done" /\ preCallCheck(x.file) # "ok")
            => x.ai.kind = "none" /\ x.error.code = preCallCheck(x.file)
        /\ x.ai.kind = "refused"
            => /\ Invocations(retry[p]) <= 1
               /\ x.pc = "done" => x.error.code \in {"IMAGE_TOO_LARGE", "INVALID_IMAGE_FORMAT"}
        /\ (x.pc = "done" /\ retry[p].pc = "returned" /\ x.ai.kind = "data"
                /\ validateExtractedData(ExtractedDataSamples[x.ai.of]) # None)
            => /\ x.error = validateExtractedData(ExtractedDataSamples[x.ai.of])
               /\ Last(retry[p].log).ev = "resolve"

\* the code of the first check that fails in the order price, weight, unit
\* validity, product, or ok
FirstFailingCheck(data) ==
    IF leqZero(data.price.value) \/ data.price.currency = "" \/ data.price.confidence < 30
    THEN "NO_PRICE_DETECTED"
    ELSE IF leqZero(data.weight.value) \/ data.weight.confidence < 30
    THEN "NO_WEIGHT_DETECTED"
    ELSE IF data.weight.unit \notin {"g", "kg", "ml", "l"}
    THEN "NO_WEIGHT_DETECTED"
    ELSE IF data.product.name \in {"", " "} \/ data.product.confidence < 30
    THEN "NO_PRODUCT_DETECTED"
    ELSE "ok"

\* C19: when the generative model returned structured data, the extraction
\* is accepted (onExtractionComplete gets the data) only if no check fails,
\* and otherwise the code of the surfaced error is that of the first check
\* that fails in the order price, weight, unit validity, product.
C19_FirstFailingCheckWins ==
    \A p \in Extractors :
        (ext[p].pc = "done" /\ ext[p].ai.kind = "data") =>
            LET code == FirstFailingCheck(ExtractedDataSamples[ext[p].ai.of]) IN
            IF code = "ok"
            THEN Last(ext[p].callbacks) =
                    [cb |-> "onExtractionComplete", val |-> Value(ext[p].ai.of)]
            ELSE /\ Last(ext[p].callbacks).cb = "onExtractionError"
                 /\ ext[p].error.code = code

\* C20: when normalization or the calculation throws in the page's
\* pipeline, the page goes to the error view and the error it stores is an
\* AppError with code API_ERROR.
C20_PipelineExceptionIsApiError ==
    [][\A p \in Extractors :
         (page.pipe[p].pc \in {"t600", "t800"} /\ page'.pipe[p].pc = "none")
         => /\ page'.app.currentView = "error"
            /\ page'.app.error.kind = "AppError"
            /\ page'.app.error.code = "API_ERROR"]_vars

(* -------------------------- the analyze route: claims ------------------ *)
\* the route has answered a request whose image passed the validation, so
\* that the generative model was called
ModelWasCalled ==
    /\ route.stage = "responded"
    /\ route.imageType # ""
    /\ validateAndSanitizeImage(route.image, route.imageType).isValid

\* C21: a failure of the call of the generative model whose message contains
\* 'API key' is answered API_ERROR with status 401; otherwise one whose
\* message contains 'quota' or 'rate' is answered API_RATE_LIMIT with status
\* 429; every other failure is answered NETWORK_ERROR with status 500.
C21_AiFailureMapping ==
    (ModelWasCalled /\ route.ai.kind = "throws") =>
        LET message == AiErrorMessages[route.ai.of]
            answer == <<route.response.error.code, route.response.status>>
        IN  /\ ~route.response.success
            /\ IF includes(message, ApiKeyIndicator) THEN answer = <<"API_ERROR", 401>>
               ELSE IF includes(message, QuotaIndicator) \/ includes(message, RateIndicator)
               THEN answer = <<"API_RATE_LIMIT", 429>>
               ELSE answer = <<"NETWORK_ERROR", 500>>

\* a failure whose message holds both 'API key' and 'quota' has been answered
C21_Witness ==
    /\ ModelWasCalled
    /\ route.ai = [kind |-> "throws", of |-> "keyQuota"]
    /\ route.response.status = 401

\* C22: when the answer of the generative model does not parse, or parses
\* but lacks price, weight or product, the request fails with the error
\* code API_ERROR.
C22_MalformedAnswerIsApiError ==
    (ModelWasCalled /\ route.ai.kind \in {"text", "partial"}) =>
        /\ ~route.response.success
        /\ route.response.error.code = "API_ERROR"

(* ------------- WeightNormalizer, UnitPriceCalculator: claims ------------ *)
\* C23: normalize fails with the invalid-unit error when the unit is not g,
\* kg, ml or l, with the invalid-value error when the unit is valid and
\* value <= 0, and otherwise returns originalValue = value, originalUnit =
\* unit and (value / 1000, kg) for g, (value / 1000, l) for ml, (value, kg)
\* for kg, (value, l) for l.
C23_Normalize ==
    calc.normalized # NotCalled =>
        LET weight == calc.data.weight
            out == calc.normalized
        IN  IF weight.unit \notin {"g", "kg", "ml", "l"}
            THEN out.thrown /\ out.message = "Unsupported unit"
            ELSE IF weight.value.neg \/ weight.value = Zero
            THEN out.thrown /\ out.message = "Invalid weight value"
            ELSE /\ ~out.thrown
                 /\ out.val.originalValue = weight.value
                 /\ out.val.originalUnit = weight.unit
                 /\ out.val.unit \in {"kg", "l"}
                 /\ weight.unit = "g" =>
                        out.val.unit = "kg"
                        /\ out.val.value = fdiv(weight.value, double(Num(1000, 0)))
                 /\ weight.unit = "ml" =>
                        out.val.unit = "l"
                        /\ out.val.value = fdiv(weight.value, double(Num(1000, 0)))
                 /\ weight.unit = "kg" => out.val.unit = "kg" /\ out.val.value = weight.value
                 /\ weight.unit = "l" => out.val.unit = "l" /\ out.val.value = weight.value

\* 500 ml have been normalized to 0.5 l
C23_Witness ==
    /\ calc.normalized # NotCalled
    /\ calc.data.weight.unit = "ml"
    /\ calc.data.weight.value = double(Num(500, 0))
    /\ ~calc.normalized.thrown
    /\ calc.normalized.val.value = double(Num(5, 0 - 1))

\* x / y rounded to 2 decimals, a tie upwards, for x, y > 0: the double
\* nearest to n / 100, n the integer part of x / y * 100 + 1 / 2
halfUpHundredths(x, y) ==
    LET k == x.e - y.e
        num == times(times(x.m, 100), 2)
        n == IF k >= 0
             THEN divmod(add(shl(num, k), y.m), times(y.m, 2)).q
             ELSE divmod(add(num, shl(y.m, 0 - k)), shl(times(y.m, 2), 0 - k)).q
    IN  IF n = <<>> THEN Zero ELSE roundToDouble(FALSE, n, <<100>>, 0)

\* C24: calculate(price, weight) fails with the invalid-price error when
\* price.value <= 0, otherwise with the invalid-weight error when
\* weight.value <= 0, and otherwise returns pricePerUnit = price.value /
\* weight.value rounded half-up to 2 decimals, unit = weight.unit, currency =
\* price.currency, originalPrice = price.value, originalWeight = weight.
C24_Calculate ==
    calc.result # NotCalled =>
        LET price == calc.data.price
            weight == calc.given
            out == calc.result
        IN  IF price.value.neg \/ price.value = Zero
            THEN out.thrown /\ out.message = "Invalid price value"
            ELSE IF weight.value.neg \/ weight.value = Zero
            THEN out.thrown /\ out.message = "Invalid normalized weight value"
            ELSE /\ ~out.thrown
                 /\ out.val.pricePerUnit = halfUpHundredths(price.value, weight.value)
                 /\ out.val.unit = weight.unit
                 /\ out.val.currency = price.currency
                 /\ out.val.originalPrice = price.value
                 /\ out.val.originalWeight = weight

\* C25: for price.value > 0 and weight.value > 0 the pricePerUnit calculate
\* returns is > 0, so that calculatePriceDifference does not fail for a zero
\* price when it compares with a result of calculate.
C25_UnitPriceIsPositive ==
    /\ (calc.result # NotCalled /\ ~calc.result.thrown) =>
            ~calc.result.val.pricePerUnit.neg /\ calc.result.val.pricePerUnit # Zero
    /\ calc.stage = "compared" =>
            calc.difference.message # "Cannot calculate percentage with zero price"

\* C26: for data that passes validateExtractedData, normalize returns a
\* weight with value > 0 and calculate returns for the price and that weight.
C26_NoFailureAfterValidation ==
    (validateExtractedData(calc.data) = None /\ calc.normalized # NotCalled) =>
        /\ ~calc.normalized.thrown
        /\ ~calc.normalized.val.value.neg /\ calc.normalized.val.value # Zero
        /\ calc.result # NotCalled => ~calc.result.thrown

(* ----------------------------- Home page: order -------------------------- *)
\* in the statuses of the steps, a step that is processing or completed has
\* only completed steps before it, and a step in error only pending ones
\* after it
StagesInOrder(steps) ==
    \A i \in DOMAIN steps :
        /\ steps[i] \in {"processing", "completed"} =>
                \A j \in 1..(i - 1) : steps[j] = "completed"
        /\ steps[i] = "error" =>
                \A j \in (i + 1)..Len(steps) : steps[j] = "pending"

\* C27: the stages of a request run in the order image validation, AI
\* extraction, data validation, unit normalization, price calculation: a
\* stage is marked processing or completed only after all earlier stages are
\* completed, the result is published only after all five stages are
\* completed, and once a stage has failed no later stage is marked and no
\* result is published until another request is started.
C27_StagesInOrder ==
    [][LET steps == page.app.processingState.steps
           after == page'.app.processingState.steps
       IN  /\ StagesInOrder(after)
           /\ (after # steps /\ after # createProcessingPipeline.steps /\ after # <<>>) =>
                /\ page.app.currentView = "processing"
                /\ \A i \in DOMAIN steps : steps[i] # "error"
                /\ \E i \in DOMAIN steps : steps[i] = "processing" /\ after[i] # "processing"
           /\ (page'.app.currentView = "result" /\ page.app.currentView # "result") =>
                /\ page.app.currentView = "processing"
                /\ \A i \in 1..5 : steps[i] = "completed"]_vars

\* a result has been published, all five stages completed
C27_Witness ==
    /\ page.app.currentView = "result"
    /\ page.app.result # None
    /\ page.app.processingState.steps =
            <<"completed", "completed", "completed", "completed", "completed">>

(* --------------------- CircuitBreaker: concurrent failures -------------- *)
\* C28: in every interleaving of concurrent execute() calls on one breaker,
\* no failure increment is lost: failures is the number of operations that
\* failed since the last one that succeeded (the initial count being 0), each
\* failing operation adds exactly one, and after it has been recorded the
\* breaker is OPEN if and only if the count is at least failureThreshold.
C28_NoLostFailure ==
    [][/\ breaker'.failures = consecutiveFailures'
       /\ \A p \in Procs :
            (SettleStep(p) /\ ~IsValue(calls'[p].opOut)) =>
                /\ breaker'.failures = breaker.failures + 1
                /\ breaker'.state = "OPEN" <=>
                        breaker'.failures >= breaker.failureThreshold]_vars

\* NProc calls were in flight together and all have failed: the second was
\* made before the failure of the first had opened the breaker
C28_Witness ==
    /\ executeCalls = NProc
    /\ now = 0
    /\ breaker.failureThreshold = 1
    /\ \A p \in Procs :
            calls[p].pc = "thrown" /\ calls[p].invoked = 1 /\ ~IsValue(calls[p].opOut)
    /\ breaker.failures = NProc
    /\ breaker.state = "OPEN"

(* --------------------------- Home page: progress ------------------------ *)
\* C29: an extraction request that has been started ends in the result view
\* or in the error view, when every awaited call settles and every timer
\* fires; its retry loop makes at most maxRetries attempts.
C29_RequestEnds ==
    /\ [](\A p \in Extractors : retry[p].attempt <= ImageAnalysisOptions.maxRetries)
    /\ \A p \in Extractors :
            (ext[p].pc \in {"reading", "analysing"})
                ~> (page.app.currentView \in {"result", "error"})

\* a request that took all its attempts, each followed by a wait but the
\* last, has ended in the error view
C29_Witness ==
    \E p \in Extractors :
        /\ ext[p].pc = "done"
        /\ retry[p].pc = "thrown"
        /\ retry[p].attempt = ImageAnalysisOptions.maxRetries
        /\ page.app.currentView = "error"

(* ------------------------------ backoff: claims ------------------------- *)
\* C30: the wait after attempt n is d plus a jitter between 0 and 10% of d,
\* where d = min(baseDelay * backoffMultiplier^(n - 1), maxDelay) for the
\* options of the call (the defaults 1000, 1.5, 30000 for those not given);
\* d is baseDelay for n = 1 (a baseDelay that is not above maxDelay), is not
\* less than the d of attempt n - 1 when backoffMultiplier >= 1, and is never
\* more than maxDelay.
C30_BackoffDelay ==
    backoff.stage = "sleeping" =>
        LET opts == withDefaults(backoff.options)
            n == backoff.attempt
            d == backoff.delay
        IN  /\ d = MathMin(fmul(opts.baseDelay, MathPow(opts.backoffMultiplier, n - 1)),
                           opts.maxDelay)
            /\ ~fless(backoff.delayWithJitter, d)
            /\ ~fless(fadd(d, fmul(d, DefaultJitterFactor)), backoff.delayWithJitter)
            /\ (n = 1 /\ ~fless(opts.maxDelay, opts.baseDelay)) => d = opts.baseDelay
            /\ (n > 1 /\ ~fless(opts.backoffMultiplier, double(Num(1, 0)))) =>
                    ~fless(d, backoff.previous)
            /\ ~fless(opts.maxDelay, d)

(* ------------------------ display formatting: claims -------------------- *)
\* C31: formatPrice writes the currency symbol after the number for EUR and
\* before it for USD, GBP and JPY, and writes any other currency code itself
\* before the number; formatUnitPrice(result) is formatPrice(result.pricePerUnit,
\* result.currency) followed by "/" and the label of the unit, kg for kg and L
\* for l.
PriceText(number, currency) ==
    CASE currency = EUR -> number \o <<"€">>
      [] currency = USD -> <<"$">> \o number
      [] currency = GBP -> <<"£">> \o number
      [] currency = JPY -> <<"¥">> \o number
      [] OTHER -> currency \o number

C32_StateFollowsCount ==
    breaker.failureThreshold >= 1 =>
        /\ breaker.failures >= 0
        /\ breaker.state = "CLOSED" <=> breaker.failures < breaker.failureThreshold

\* the breaker is HALF_OPEN while two operations are in flight, one of them
\* invoked before it opened
C32_Witness ==
    /\ breaker.state = "HALF_OPEN"
    /\ breaker.failures >= breaker.failureThreshold
    /\ \E p, q \in Procs :
        /\ p # q
        /\ calls[p].pc = "awaiting" /\ calls[p].entry = "CLOSED"
        /\ calls[q].pc = "awaiting" /\ calls[q].entry = "HALF_OPEN"

\* C33: the breaker leaves OPEN only by the transition to HALF_OPEN that
\* execute() makes once recoveryTimeout has elapsed: no step takes it from
\* OPEN to CLOSED, and the settling of an operation invoked before the
\* breaker opened neither clears failures nor closes the breaker.
C33_LeavesOpenByProbeOnly ==
    [][breaker.state = "OPEN" =>
            /\ breaker'.state \in {"OPEN", "HALF_OPEN"}
            /\ breaker'.state = "HALF_OPEN" =>
                    /\ \E p \in Procs : ExecuteStep(p)
                    /\ now - breaker.lastFailureTime > breaker.recoveryTimeout
            /\ breaker'.failures >= breaker.failures]_vars

\* C34: while the breaker is HALF_OPEN and the operation of its probe has not
\* settled, an execute() call that arrives does not invoke its operation, so
\* that at most one operation is in flight through the breaker.
ProbeInFlight ==
    /\ breaker.state = "HALF_OPEN"
    /\ \E q \in Procs : calls[q].pc = "awaiting" /\ calls[q].entry = "HALF_OPEN"

C34_OneProbeAtATime ==
    [][\A p \in Procs :
        (ProbeInFlight /\ ExecuteStep(p)) =>
            /\ calls'[p].invoked = 0
            /\ Cardinality({q \in Procs : calls'[q].pc = "awaiting"}) <= 1]_vars

(* ------------------------- resilientApiCall: claims --------------------- *)
\* C35: resilientApiCall counts retry sequences, not attempts: the attempts
\* and the waits of a call leave the breaker as it is; when the call settles,
\* failures is one more than before where its retry sequence failed, however
\* many attempts it made, and 0 where an attempt succeeded; a call the
\* breaker rejects as OPEN makes no attempt and never invokes the observer.
C35_CountsRetrySequences ==
    [][\A p \in ApiCallers :
        /\ (calls[p].pc = "awaiting" /\ retry'[p] # retry[p]) => breaker' = breaker
        /\ SettleStep(p) =>
            /\ IsValue(calls'[p].opOut) <=> Len(Only(retry[p].log, {"resolve"})) = 1
            /\ breaker'.failures = IF IsValue(calls'[p].opOut) THEN 0
                                   ELSE breaker.failures + 1
        /\ (/\ ExecuteStep(p)
            /\ breaker.state = "OPEN"
            /\ ~(now - breaker.lastFailureTime > breaker.recoveryTimeout)) =>
                /\ calls'[p].out = CircuitOpenError
                /\ retry'[p].log = <<>>
                /\ breaker' = breaker]_vars

\* a call has failed after three attempts and two observer calls, and the
\* breaker counts one failure; another call was rejected by the open breaker
C35_Witness ==
    \E p \in ApiCallers :
        /\ calls[p].pc = "thrown"
        /\ calls[p].invoked = 1
        /\ Invocations(retry[p]) = 3
        /\ Len(Only(retry[p].log, {"onRetry"})) = 2
        /\ breaker.failures = 1

C35_WitnessRejected ==
    \E p \in ApiCallers :
        /\ calls[p].pc = "thrown"
        /\ calls[p].invoked = 0
        /\ retry[p].log = <<>>
        /\ breaker.state = "OPEN"

(* ---------------------- extractData: its callbacks ---------------------- *)
\* the callbacks of the call of caller p, by name and in order
CallbackNames(p) == [i \in 1..Len(ext[p].callbacks) |-> ext[p].callbacks[i].cb]

\* C36: of every extractData call, onExtractionStart is the first callback
\* and is called once; a call that has settled has called exactly one of
\* onExtractionComplete and onExtractionError, once, after it, and has left
\* isExtracting false; a call in flight has called neither. This holds on
\* every path: size rejection, format rejection, failed read, failed
\* external call, failed field validation, success.
C36_CallbackProtocol ==
    \A p \in Extractors :
        /\ ext[p].runs = 0 => ext[p].callbacks = <<>>
        /\ (ext[p].runs > 0 /\ ext[p].pc # "done") =>
                CallbackNames(p) = <<"onExtractionStart">>
        /\ (ext[p].runs > 0 /\ ext[p].pc = "done") =>
                /\ CallbackNames(p) \in {<<"onExtractionStart", "onExtractionComplete">>,
                                         <<"onExtractionStart", "onExtractionError">>}
                /\ ~ext[p].isExtracting

\* the second call of a caller has settled with onExtractionComplete
C36_Witness ==
    /\ ext[1].runs = 2
    /\ ext[1].pc = "done"
    /\ CallbackNames(1) = <<"onExtractionStart", "onExtractionComplete">>
    /\ ~ext[1].isExtracting
    /\ ext[1].error = None

\* the paths of a settled call that end with onExtractionError
C36_PathSize == ext[1].pc = "done" /\ ext[1].error # None /\ ext[1].error.code = "IMAGE_TOO_LARGE"
C36_PathFormat == ext[1].pc = "done" /\ ext[1].error # None /\ ext[1].error.code = "INVALID_IMAGE_FORMAT"
C36_PathCallFailed == ext[1].pc = "done" /\ retry[1].pc = "thrown" /\ ext[1].error = retry[1].out
C36_PathValidation == ext[1].pc = "done" /\ retry[1].pc = "returned" /\ ext[1].error # None

(* --------------------------- Home page: views --------------------------- *)
\* C37: every change of currentView the Home page makes is a transition
\* isValidTransition allows: upload -> processing, processing -> result,
\* processing -> error, result -> upload, error -> upload.
C37_OnlyValidTransitions ==
    [][page'.app.currentView # page.app.currentView =>
            isValidTransition(page.app.currentView, page'.app.currentView)]_vars

(* ------------------------------ history --------------------------------- *)
\* the first n elements of a sequence, or all of it
Newest(seq, n) == SubSeq(seq, 1, IF Len(seq) < n THEN Len(seq) ELSE n)

\* C38: after any sequence of reducer actions, history holds at most 10
\* results, newest first, and they are the 10 most recent
\* COMPLETE_PROCESSING results; only COMPLETE_PROCESSING changes history.
C38_HistoryIsTenNewest ==
    /\ [](/\ Len(nav.state.history) <= 10
          /\ nav.state.history = Newest(nav.completed, 10))
    /\ [][nav'.completed = nav.completed => nav'.state.history = nav.state.history]_vars

\* eleven of twelve dispatched actions completed a result, the second to
\* the twelfth: the first result completed has left the history
C38_Witness ==
    /\ Len(nav.completed) = 11
    /\ nav.dispatched = 12
    /\ Len(nav.state.history) = 10
    /\ nav.state.history[1] = [tag |-> 12]
    /\ nav.state.history[10] = [tag |-> 3]
    /\ nav.completed[11] = [tag |-> 2]
    /\ nav.state.currentView = "result"

(* ------------------------- SecureImageProcessor ------------------------- *)
\* the step in which processImage call c settles
ProcessImageSettles(c) ==
    /\ secure'.call[c].pc \in {"resolved", "rejected"}
    /\ \/ secure.call[c].pc = "processing"
       \/ secure'.made = secure.made + 1

\* the processor callback of every call was invoked at most once, only with
\* data that passed validateAndSanitizeImage, never when validation failed
ProcessorGivenValidatedData ==
    \A c \in Procs :
        LET call == secure.call[c] IN
        call.pc # "idle" =>
            /\ call.invoked <= 1
            /\ call.invoked = 1 <=> validateAndSanitizeImage(call.imageData, call.mimeType).isValid
            /\ call.invoked = 1 => call.given = sanitizedData(call.imageData)
            /\ call.invoked = 0 => call.given = NoData

\* C39: when a processImage call has settled, resolved or rejected, the
\* imageData of the instance is null; the processor callback is invoked at
\* most once, only with validated data, and never when validation fails.
C39_NoImageDataAfterSettle ==
    /\ []ProcessorGivenValidatedData
    /\ [][\A c \in Procs : ProcessImageSettles(c) => secure'.imageData = NoData]_vars

\* the same for calls with image data that is not the empty string
C39_NonEmptyDataIsCleared ==
    /\ []ProcessorGivenValidatedData
    /\ [][\A c \in Procs :
            (ProcessImageSettles(c) /\ truthy(secure.imageData)) =>
                secure'.imageData = NoData]_vars

(* ------------------------ DataExtractor component ----------------------- *)
\* C40: for a given file prop the component starts extraction at most once:
\* a render with the file of an extraction that completed successfully
\* (isExtracting false, error null) starts no other extraction, and no
\* extraction is started while one is in flight.
C40_StartsOncePerFile ==
    /\ [](component.started <= 1)
    /\ [][\A p \in Extractors :
            ExtractDataStep(p) =>
                /\ ~ext[p].isExtracting
                /\ ~(/\ ext[p].pc = "done"
                     /\ ext[p].error = None
                     /\ ext[p].file = component'.file)]_vars

\* no render starts an extraction while one is in flight
C40_NoneWhileInFlight ==
    [][\A p \in Extractors : ExtractDataStep(p) => ext[p].pc \in {"idle", "done"}]_vars

====
